---- MODULE Spec2Model ----
(***************************************************************************)
(* goed: a modal terminal text editor.  The model follows src/editor.go    *)
(* (the Editor struct and its methods) driven by the event loop of main()  *)
(* (src/unnamed/part_002, lines 10-56).                                    *)
(*                                                                         *)
(* Conventions.  Go slices are 0-based, TLA+ sequences are 1-based: every  *)
(* index kept in the state (cursorX, cursorY, offsetX, offsetY) has the    *)
(* value it has in the program, and At/DeleteAt/InsertAt translate.  A     *)
(* rune is a one-character string; a Go string or []rune is a sequence of  *)
(* runes.  No two lines of the buffer share a backing array (loadFile      *)
(* allocates each line, handleEnter clones the tail), so lines are values. *)
(* A run-time panic (index or slice bound out of range) ends the process:  *)
(* every handler has a predicate that says when it panics, and the action  *)
(* that runs it then records the panic instead of a new editor state.      *)
(***************************************************************************)
EXTENDS Integers, Sequences, FiniteSets, TLC

\* ------------------------------------------------------------------ bounds
MaxLines == 2      \* the buffer grows to at most this many lines
MaxRunes == 3      \* the buffer grows to at most this many runes in all
MaxW == 2          \* the width the terminal reports
MaxH == 3          \* heights the terminal reports are MaxH-1 and MaxH
MaxOps == 4        \* keys applied after the start state of an edit run
MaxFileLen == 3    \* runes of the file a command run starts with
MaxCmds == 2       \* commands submitted in a command run
MaxCacheLines == 3 \* lines of a buffer handed to the highlight cache
MaxRetention == 2  \* retention of the highlight cache of a run of calls
MaxMoves == 2      \* keys applied after the start state of a move run

\* ------------------------------------------------------- program constants
defaultShowLineNumbers == TRUE
defaultHighlightCurrentLine == TRUE
defaultSpacesPerTab == 4
errorNoFilename == "No filename specified"
errorUnknownCommand == "Unknown command"
errorOpeningFile == "Error opening file"
errorWritingFile == "Error writing to file"
errorReadingFile == "Error reading file"
minCommandLength == 2
editorRetention == 3     \* NewHighlightCache(highlighter, 3)

TAB == "\t"
NL == "\n"
CR == "\r"

\* ----------------------------------------------------------------- helpers
Min(a, b) == IF a < b THEN a ELSE b

\* s[i] of Go, defined for 0 <= i < len(s)
At(s, i) == s[i + 1]

\* 0 <= i < len(s): the bounds check of an index expression
InRange(s, i) == 0 <= i /\ i < Len(s)

\* s[lo:hi] of Go, defined for 0 <= lo <= hi <= len(s)
Slice(s, lo, hi) == SubSeq(s, lo + 1, hi)

\* slices.Delete(s, i, i+1)
DeleteAt(s, i) == Slice(s, 0, i) \o Slice(s, i + 1, Len(s))

\* slices.Insert(s, i, x)
InsertAt(s, i, x) == Slice(s, 0, i) \o <<x>> \o Slice(s, i, Len(s))

\* s with element i (0-based) replaced by x
SetAt(s, i, x) == [s EXCEPT ![i + 1] = x]

\* ------------------------------------------------------------ the Editor
\* NewEditor: one empty line, cursor and offsets 0, insert mode, dirty; the
\* screen size fields w and h are not set and keep Go's zero value.  The
\* highlighter field holds the extension whose strategy is current, <<>>
\* for none.
NewEditor ==
  [lines |-> << <<>> >>,
   cursorX |-> 0, cursorY |-> 0,
   offsetX |-> 0, offsetY |-> 0,
   w |-> 0, h |-> 0,
   currentFilename |-> <<>>,
   dirty |-> TRUE,
   inCommandMode |-> FALSE,
   cmd |-> <<>>,
   status |-> <<>>,
   showLineNumbers |-> defaultShowLineNumbers,
   highlightCurrentLine |-> defaultHighlightCurrentLine,
   spacesPerTab |-> defaultSpacesPerTab,
   highlighter |-> <<>>]

\* adjustOffsets: scrolls so that the cursor is in the viewport.  The
\* horizontal test uses the logical column cursorX.
adjustOffsets(e) ==
  LET ox == IF e.cursorX < e.offsetX THEN e.cursorX
            ELSE IF e.cursorX >= e.offsetX + e.w THEN e.cursorX - e.w + 1
            ELSE e.offsetX
      oy == IF e.cursorY < e.offsetY THEN e.cursorY
            ELSE IF e.cursorY >= e.offsetY + e.h - 1 THEN e.cursorY - e.h + 1
            ELSE e.offsetY
      moved == \/ e.cursorX < e.offsetX
               \/ e.cursorX >= e.offsetX + e.w
               \/ e.cursorY < e.offsetY
               \/ e.cursorY >= e.offsetY + e.h - 1
  IN [e EXCEPT !.offsetX = ox, !.offsetY = oy,
               !.dirty = IF moved THEN TRUE ELSE e.dirty]

\* showStatus
showStatus(e, msg) == [e EXCEPT !.status = msg, !.dirty = TRUE]

\* number of tabs in s
RECURSIVE CountTabs(_)
CountTabs(s) ==
  IF s = <<>> THEN 0
  ELSE (IF Head(s) = TAB THEN 1 ELSE 0) + CountTabs(Tail(s))

\* calculateCursorOffsetX with every tab counted as spacesPerTab extra
\* columns instead of spacesPerTab-1
calculateCursorOffsetX_fullTab(e, line) ==
  LET maxX == Min(e.cursorX, Len(line))
  IN CountTabs(Slice(line, 0, maxX)) * e.spacesPerTab

\* calculateCursorOffsetX: the extra columns the tabs before the cursor take
calculateCursorOffsetX(e, line) ==
  LET maxX == Min(e.cursorX, Len(line))
  IN CountTabs(Slice(line, 0, maxX)) * (e.spacesPerTab - 1)

\* ------------------------------------------------------ insert-mode edits
\* handleInsertRune
handleInsertRunePanics(e) ==
  LET ls == IF e.cursorY >= Len(e.lines) THEN Append(e.lines, <<>>) ELSE e.lines
  IN ~InRange(ls, e.cursorY)

handleInsertRune(e, r) ==
  LET ls == IF e.cursorY >= Len(e.lines) THEN Append(e.lines, <<>>) ELSE e.lines
      line == At(ls, e.cursorY)
      cx == IF e.cursorX > Len(line) THEN Len(line) ELSE e.cursorX
  IN [e EXCEPT !.lines = SetAt(ls, e.cursorY, InsertAt(line, cx, r)),
               !.cursorX = cx + 1,
               !.dirty = TRUE]

\* handleBackspace
handleBackspacePanics(e) ==
  IF e.cursorY < Len(e.lines) /\ e.cursorX > 0
  THEN ~InRange(e.lines, e.cursorY) \/ e.cursorX > Len(At(e.lines, e.cursorY))
  ELSE IF e.cursorY > 0
  THEN ~InRange(e.lines, e.cursorY - 1) \/ ~InRange(e.lines, e.cursorY)
  ELSE FALSE

\* handleBackspace with the rune at the cursor deleted instead of the rune
\* before it
handleBackspace_atCursor(e) ==
  IF e.cursorY < Len(e.lines) /\ e.cursorX > 0
  THEN LET line == At(e.lines, e.cursorY)
       IN [e EXCEPT !.lines = SetAt(e.lines, e.cursorY, DeleteAt(line, e.cursorX)),
                    !.cursorX = e.cursorX - 1,
                    !.dirty = TRUE]
  ELSE IF e.cursorY > 0
  THEN LET prevLine == At(e.lines, e.cursorY - 1)
           merged == SetAt(e.lines, e.cursorY - 1, prevLine \o At(e.lines, e.cursorY))
       IN [e EXCEPT !.lines = DeleteAt(merged, e.cursorY),
                    !.cursorX = Len(prevLine),
                    !.cursorY = e.cursorY - 1,
                    !.dirty = TRUE]
  ELSE e

handleBackspace(e) ==
  IF e.cursorY < Len(e.lines) /\ e.cursorX > 0
  THEN LET line == At(e.lines, e.cursorY)
       IN [e EXCEPT !.lines = SetAt(e.lines, e.cursorY, DeleteAt(line, e.cursorX - 1)),
                    !.cursorX = e.cursorX - 1,
                    !.dirty = TRUE]
  ELSE IF e.cursorY > 0
  THEN LET prevLine == At(e.lines, e.cursorY - 1)
           merged == SetAt(e.lines, e.cursorY - 1, prevLine \o At(e.lines, e.cursorY))
       IN [e EXCEPT !.lines = DeleteAt(merged, e.cursorY),
                    !.cursorX = Len(prevLine),
                    !.cursorY = e.cursorY - 1,
                    !.dirty = TRUE]
  ELSE e

\* handleDelete
handleDeletePanics(e) ==
  IF e.cursorY < Len(e.lines) /\ e.cursorY < 0 THEN TRUE
  ELSE IF e.cursorY < Len(e.lines) /\ e.cursorX < Len(At(e.lines, e.cursorY))
  THEN e.cursorX < 0
  ELSE IF e.cursorY < Len(e.lines) - 1
  THEN ~InRange(e.lines, e.cursorY + 1) \/ ~InRange(e.lines, e.cursorY)
  ELSE FALSE

\* handleDelete that does not join at the end of a line
handleDelete_noJoin(e) ==
  IF e.cursorY < Len(e.lines) /\ e.cursorX < Len(At(e.lines, e.cursorY))
  THEN LET line == At(e.lines, e.cursorY)
       IN [e EXCEPT !.lines = SetAt(e.lines, e.cursorY, DeleteAt(line, e.cursorX)),
                    !.dirty = TRUE]
  ELSE e

handleDelete(e) ==
  IF e.cursorY < Len(e.lines) /\ e.cursorX < Len(At(e.lines, e.cursorY))
  THEN LET line == At(e.lines, e.cursorY)
       IN [e EXCEPT !.lines = SetAt(e.lines, e.cursorY, DeleteAt(line, e.cursorX)),
                    !.dirty = TRUE]
  ELSE IF e.cursorY < Len(e.lines) - 1
  THEN LET nextLine == At(e.lines, e.cursorY + 1)
           merged == SetAt(e.lines, e.cursorY, At(e.lines, e.cursorY) \o nextLine)
       IN [e EXCEPT !.lines = DeleteAt(merged, e.cursorY + 1),
                    !.dirty = TRUE]
  ELSE e

\* handleEnter
handleEnterPanics(e) ==
  /\ e.cursorY < Len(e.lines)
  /\ \/ e.cursorY < 0
     \/ e.cursorX < 0
     \/ e.cursorX > Len(At(e.lines, e.cursorY))

\* handleEnter without the truncation of the current line
handleEnter_noCut(e) ==
  IF e.cursorY < Len(e.lines)
  THEN LET line == At(e.lines, e.cursorY)
           newLine == Slice(line, e.cursorX, Len(line))
       IN [e EXCEPT !.lines = InsertAt(e.lines, e.cursorY + 1, newLine),
                    !.cursorY = e.cursorY + 1,
                    !.cursorX = 0,
                    !.dirty = TRUE]
  ELSE e

handleEnter(e) ==
  IF e.cursorY < Len(e.lines)
  THEN LET line == At(e.lines, e.cursorY)
           newLine == Slice(line, e.cursorX, Len(line))
           cut == SetAt(e.lines, e.cursorY, Slice(line, 0, e.cursorX))
       IN [e EXCEPT !.lines = InsertAt(cut, e.cursorY + 1, newLine),
                    !.cursorY = e.cursorY + 1,
                    !.cursorX = 0,
                    !.dirty = TRUE]
  ELSE e

\* handleExitInsertMode
handleExitInsertMode(e) == [e EXCEPT !.inCommandMode = TRUE, !.dirty = TRUE]

\* ------------------------------------------------------------- navigation
\* handleMoveDown
handleMoveDownPanics(e) ==
  e.cursorY < Len(e.lines) - 1 /\ e.cursorY < 0

\* handleMoveDown without the test of the end of the line
handleMoveDown_noEol(e) ==
  IF e.cursorY < Len(e.lines) - 1
  THEN LET nextLine == At(e.lines, e.cursorY + 1)
       IN [e EXCEPT !.cursorY = e.cursorY + 1,
                    !.cursorX = IF e.cursorX > 0 /\ e.cursorX > Len(nextLine)
                                THEN Len(nextLine) ELSE e.cursorX,
                    !.dirty = TRUE]
  ELSE [e EXCEPT !.dirty = TRUE]

handleMoveDown(e) ==
  IF e.cursorY < Len(e.lines) - 1
  THEN LET eol == e.cursorX = Len(At(e.lines, e.cursorY))
           nextLine == At(e.lines, e.cursorY + 1)
       IN [e EXCEPT !.cursorY = e.cursorY + 1,
                    !.cursorX = IF e.cursorX > 0 /\ (eol \/ e.cursorX > Len(nextLine))
                                THEN Len(nextLine) ELSE e.cursorX,
                    !.dirty = TRUE]
  ELSE [e EXCEPT !.dirty = TRUE]

\* handleMoveUp
handleMoveUpPanics(e) ==
  e.cursorY > 0 /\ ~InRange(e.lines, e.cursorY)

handleMoveUp(e) ==
  IF e.cursorY > 0
  THEN LET eol == e.cursorX = Len(At(e.lines, e.cursorY))
           prevLine == At(e.lines, e.cursorY - 1)
       IN [e EXCEPT !.cursorY = e.cursorY - 1,
                    !.cursorX = IF e.cursorX > 0 /\ (eol \/ e.cursorX > Len(prevLine))
                                THEN Len(prevLine) ELSE e.cursorX,
                    !.dirty = TRUE]
  ELSE [e EXCEPT !.dirty = TRUE]

\* handleMoveLeft
handleMoveLeftPanics(e) ==
  e.cursorX <= 0 /\ e.cursorY > 0 /\ ~InRange(e.lines, e.cursorY - 1)

\* handleMoveLeft that stays at column 0
handleMoveLeft_noWrap(e) ==
  IF e.cursorX > 0
  THEN [e EXCEPT !.cursorX = e.cursorX - 1, !.dirty = TRUE]
  ELSE [e EXCEPT !.dirty = TRUE]

handleMoveLeft(e) ==
  IF e.cursorX > 0
  THEN [e EXCEPT !.cursorX = e.cursorX - 1, !.dirty = TRUE]
  ELSE IF e.cursorY > 0
  THEN [e EXCEPT !.cursorY = e.cursorY - 1,
                 !.cursorX = Len(At(e.lines, e.cursorY - 1)),
                 !.dirty = TRUE]
  ELSE [e EXCEPT !.dirty = TRUE]

\* handleMoveRight
handleMoveRightPanics(e) ==
  e.cursorY < Len(e.lines) /\ e.cursorY < 0

handleMoveRight(e) ==
  IF e.cursorY < Len(e.lines) /\ e.cursorX < Len(At(e.lines, e.cursorY))
  THEN [e EXCEPT !.cursorX = e.cursorX + 1, !.dirty = TRUE]
  ELSE IF e.cursorY < Len(e.lines) - 1
  THEN [e EXCEPT !.cursorY = e.cursorY + 1, !.cursorX = 0, !.dirty = TRUE]
  ELSE [e EXCEPT !.dirty = TRUE]

\* handleMoveToEnd
handleMoveToEndPanics(e) ==
  e.cursorY < Len(e.lines) /\ e.cursorY < 0

handleMoveToEnd(e) ==
  IF e.cursorY < Len(e.lines)
  THEN [e EXCEPT !.cursorX = Len(At(e.lines, e.cursorY)), !.dirty = TRUE]
  ELSE [e EXCEPT !.dirty = TRUE]

\* handleMoveToStart that leaves the redraw flag as it is
handleMoveToStart_clean(e) == [e EXCEPT !.cursorX = 0]

\* handleMoveToStart
handleMoveToStart(e) == [e EXCEPT !.cursorX = 0, !.dirty = TRUE]

\* handlePageDown: the row the cursor lands on, before it is used as an index
pageDownOffsetY(e) ==
  IF e.offsetY + e.h - 1 > Len(e.lines) - 1 THEN Len(e.lines) - 1
  ELSE e.offsetY + e.h - 1

pageDownCursorY(e) ==
  IF pageDownOffsetY(e) + e.h - 1 >= Len(e.lines) THEN Len(e.lines) - 1
  ELSE pageDownOffsetY(e) + e.h - 1

handlePageDownPanics(e) ==
  e.offsetY < Len(e.lines) - 1 /\ ~InRange(e.lines, pageDownCursorY(e))

handlePageDown(e) ==
  IF e.offsetY < Len(e.lines) - 1
  THEN LET cy == pageDownCursorY(e)
       IN [e EXCEPT !.offsetY = pageDownOffsetY(e),
                    !.cursorY = cy,
                    !.cursorX = Min(e.cursorX, Len(At(e.lines, cy))),
                    !.dirty = TRUE]
  ELSE e

\* handlePageUp
pageUpOffsetY(e) ==
  IF e.offsetY - (e.h - 1) < 0 THEN 0 ELSE e.offsetY - (e.h - 1)

handlePageUpPanics(e) ==
  e.offsetY > 0 /\ ~InRange(e.lines, pageUpOffsetY(e))

handlePageUp(e) ==
  IF e.offsetY > 0
  THEN LET oy == pageUpOffsetY(e)
       IN [e EXCEPT !.offsetY = oy,
                    !.cursorY = oy,
                    !.cursorX = Min(e.cursorX, Len(At(e.lines, oy))),
                    !.dirty = TRUE]
  ELSE e

\* ------------------------------------------------------------- key events
\* A key event is a record: key is tcell's key name, rune the rune of a
\* KeyRune event.
KeyRune(r) == [key |-> "KeyRune", rune |-> r]
Key(k) == [key |-> k, rune |-> ""]

\* handleInsertMode: the dispatch on the key
handleInsertModePanics(e, ev) ==
  CASE ev.key = "KeyRune" -> ev.rune # "" /\ handleInsertRunePanics(e)
    [] ev.key = "KeyTab" -> handleInsertRunePanics(e)
    [] ev.key = "KeyBackspace" -> handleBackspacePanics(e)
    [] ev.key = "KeyDelete" -> handleDeletePanics(e)
    [] ev.key = "KeyEnter" -> handleEnterPanics(e)
    [] ev.key = "KeyLeft" -> handleMoveLeftPanics(e)
    [] ev.key = "KeyRight" -> handleMoveRightPanics(e)
    [] ev.key = "KeyUp" -> handleMoveUpPanics(e)
    [] ev.key = "KeyDown" -> handleMoveDownPanics(e)
    [] ev.key = "KeyPgUp" -> handlePageUpPanics(e)
    [] ev.key = "KeyPgDn" -> handlePageDownPanics(e)
    [] ev.key = "KeyEnd" -> handleMoveToEndPanics(e)
    [] OTHER -> FALSE

handleInsertMode(e, ev) ==
  CASE ev.key = "KeyEsc" -> handleExitInsertMode(e)
    [] ev.key = "KeyRune" -> IF ev.rune # "" THEN handleInsertRune(e, ev.rune) ELSE e
    [] ev.key = "KeyTab" -> handleInsertRune(e, TAB)
    [] ev.key = "KeyBackspace" -> handleBackspace(e)
    [] ev.key = "KeyDelete" -> handleDelete(e)
    [] ev.key = "KeyEnter" -> handleEnter(e)
    [] ev.key = "KeyLeft" -> handleMoveLeft(e)
    [] ev.key = "KeyRight" -> handleMoveRight(e)
    [] ev.key = "KeyUp" -> handleMoveUp(e)
    [] ev.key = "KeyDown" -> handleMoveDown(e)
    [] ev.key = "KeyPgUp" -> handlePageUp(e)
    [] ev.key = "KeyPgDn" -> handlePageDown(e)
    [] ev.key = "KeyHome" -> handleMoveToStart(e)
    [] ev.key = "KeyEnd" -> handleMoveToEnd(e)
    [] OTHER -> e

\* updateScreenSize: size is what screen.Size() returns
updateScreenSize(e, size) ==
  IF size[1] # e.w \/ size[2] # e.h
  THEN [e EXCEPT !.w = size[1], !.h = size[2], !.dirty = TRUE]
  ELSE e

\* ------------------------------------------------------------------ draw
\* len(fmt.Sprintf("%d", n)) for n >= 0
RECURSIVE Digits(_)
Digits(n) == IF n < 10 THEN 1 ELSE 1 + Digits(n \div 10)

gutterWidth(e) == IF e.showLineNumbers THEN Digits(Len(e.lines)) ELSE 0

startX(e) == IF e.showLineNumbers THEN gutterWidth(e) + 1 ELSE 0

\* the screen rows y whose buffer line draw reads: the loop runs while
\* y < h and y+offsetY < len(lines), and stops before row h-1 when the
\* command line or a status message takes that row
drawnRows(e) ==
  {y \in 0..(e.h - 1) :
     /\ y + e.offsetY < Len(e.lines)
     /\ ~((e.inCommandMode \/ e.status # <<>>) /\ y = e.h - 1)}

\* draw panics on a line index below 0, on a rune index below 0, and, in
\* insert mode, on e.lines[e.cursorY] when cursorY is not a line
drawPanics(e) ==
  /\ e.dirty
  /\ \/ \E y \in drawnRows(e) :
          \/ y + e.offsetY < 0
          \/ /\ startX(e) < e.w
             /\ e.offsetX < 0
             /\ e.offsetX < Len(At(e.lines, y + e.offsetY))
     \/ ~e.inCommandMode /\ ~InRange(e.lines, e.cursorY)

\* the screen column at which the content loop of draw puts the rune with
\* index i >= offsetX of a line (or the blank it draws past the end of the
\* line): x starts at startX with index offsetX, a tab advances x by
\* spacesPerTab and every other rune by 1
RECURSIVE drawColumnFrom(_, _, _, _)
drawColumnFrom(e, line, j, i) ==
  IF j >= i THEN 0
  ELSE (IF j < Len(line) /\ At(line, j) = TAB THEN e.spacesPerTab ELSE 1)
       + drawColumnFrom(e, line, j + 1, i)

drawColumn(e, line, i) == startX(e) + drawColumnFrom(e, line, e.offsetX, i)

\* the arguments of ShowCursor in insert mode
showCursorX(e) ==
  e.cursorX + calculateCursorOffsetX(e, At(e.lines, e.cursorY)) - e.offsetX
    + (IF e.showLineNumbers THEN gutterWidth(e) + 1 ELSE 0)

showCursorY(e) == e.cursorY - e.offsetY

\* drawStatus that keeps the message
drawStatus_keep(e) == e

\* drawStatus: a pending status message is shown once and cleared
drawStatus(e) == IF e.status # <<>> THEN [e EXCEPT !.status = <<>>] ELSE e

\* whether draw calls the screen at all (Clear, SetContent, ShowCursor,
\* Show): it returns before the first call when the editor is not dirty
drawWrites(e) == e.dirty

\* whether draw puts the status message on the screen: drawStatus is reached
\* in insert mode only, and the frame reaches the terminal with Show, which
\* a pass that panics does not get to
drawShowsStatus(e) ==
  drawWrites(e) /\ ~e.inCommandMode /\ e.status # <<>> /\ ~drawPanics(e)

\* draw that leaves the redraw flag set
draw_keepFlag(e) ==
  IF ~e.dirty THEN e
  ELSE IF e.inCommandMode THEN e
  ELSE drawStatus(e)

\* draw: nothing when the editor is not dirty; otherwise the frame is
\* painted (the cells go to the terminal, which is not part of the state),
\* in insert mode the status message is consumed, and dirty is reset
draw(e) ==
  IF ~e.dirty THEN e
  ELSE IF e.inCommandMode THEN [e EXCEPT !.dirty = FALSE]
  ELSE [drawStatus(e) EXCEPT !.dirty = FALSE]

\* ------------------------------------------------------- string functions
\* strings.TrimLeft / TrimRight / Trim with a cutset
RECURSIVE TrimLeft(_, _)
TrimLeft(s, cut) ==
  IF s # <<>> /\ Head(s) \in cut THEN TrimLeft(Tail(s), cut) ELSE s

RECURSIVE TrimRight(_, _)
TrimRight(s, cut) ==
  IF s # <<>> /\ s[Len(s)] \in cut THEN TrimRight(SubSeq(s, 1, Len(s) - 1), cut) ELSE s

Trim(s, cut) == TrimRight(TrimLeft(s, cut), cut)

\* strings.TrimSpace
TrimSpace(s) == Trim(s, {" ", TAB, NL, CR})

\* the index (1-based) of the first element of s in set, 0 if none
RECURSIVE IndexIn(_, _, _)
IndexIn(s, set, i) ==
  IF i > Len(s) THEN 0
  ELSE IF s[i] \in set THEN i
  ELSE IndexIn(s, set, i + 1)

\* strings.Split(s, sep) for a one-rune separator: always at least one part
RECURSIVE Split(_, _)
Split(s, sep) ==
  LET i == IndexIn(s, {sep}, 1)
  IN IF i = 0 THEN <<s>>
     ELSE <<SubSeq(s, 1, i - 1)>> \o Split(SubSeq(s, i + 1, Len(s)), sep)

\* strings.Fields: the maximal runs of non-space runes
RECURSIVE Fields(_)
Fields(s) ==
  LET t == TrimLeft(s, {" ", TAB, NL, CR})
      i == IndexIn(t, {" ", TAB, NL, CR}, 1)
  IN IF t = <<>> THEN <<>>
     ELSE IF i = 0 THEN <<t>>
     ELSE <<SubSeq(t, 1, i - 1)>> \o Fields(SubSeq(t, i, Len(t)))

\* strings.Join(parts, " ")
RECURSIVE Join(_)
Join(parts) ==
  IF parts = <<>> THEN <<>>
  ELSE IF Len(parts) = 1 THEN parts[1]
  ELSE parts[1] \o <<" ">> \o Join(Tail(parts))

DigitValue(r) ==
  CASE r = "0" -> 0 [] r = "1" -> 1 [] r = "2" -> 2 [] r = "3" -> 3
    [] r = "4" -> 4 [] r = "5" -> 5 [] r = "6" -> 6 [] r = "7" -> 7
    [] r = "8" -> 8 [] r = "9" -> 9 [] OTHER -> -1

RECURSIVE DecimalValue(_, _)
DecimalValue(s, acc) ==
  IF s = <<>> THEN acc
  ELSE DecimalValue(Tail(s), 10 * acc + DigitValue(Head(s)))

\* strconv.Atoi with the error dropped (line, _ = strconv.Atoi(...)): the
\* value of a non-empty run of decimal digits, 0 for anything else.  Runes
\* of a sign are outside the alphabet of the model.
Atoi(s) ==
  IF s # <<>> /\ \A i \in 1..Len(s) : DigitValue(s[i]) >= 0
  THEN DecimalValue(s, 0) ELSE 0

\* filepath.Clean on a path without separators and without "." or ".."
\* elements (the paths of the model): the path itself, "." for the empty
\* path
Clean(path) == IF path = <<>> THEN <<".">> ELSE path

\* the index (1-based) of the last "." of s, 0 if none
RECURSIVE LastDot(_, _)
LastDot(s, i) ==
  IF i = 0 THEN 0 ELSE IF s[i] = "." THEN i ELSE LastDot(s, i - 1)

\* filepath.Ext: the suffix that starts at the last dot, empty without one
Ext(path) ==
  LET i == LastDot(path, Len(path))
  IN IF i = 0 THEN <<>> ELSE SubSeq(path, i, Len(path))

\* ------------------------------------------------------------ highlighter
\* NewSyntaxHighlighter: the extensions with a registered factory
factories == { <<".", "g", "o">> }

\* SyntaxHighlighter.SetFileExtension: the strategy that becomes current,
\* named by its extension, <<>> (nil) when none is registered
SetFileExtension(extension) ==
  IF extension \in factories THEN extension ELSE <<>>

\* GoHighlighter.GetHighlightMap on a line of letters and blanks, as a
\* function from byte offsets to style names: go/scanner skips the blanks,
\* every maximal run of letters is an IDENT token, and after a line that
\* holds an identifier it delivers at the end of the source the SEMICOLON it
\* inserts, with the literal "\n", which is styled as an operator
GoHighlightMap(src) ==
  LET letters == {i \in 0..(Len(src) - 1) : At(src, i) \notin {" ", TAB}}
      semi == IF letters = {} THEN {} ELSE {Len(src)}
  IN [i \in letters \cup semi |-> IF i \in letters THEN "IDENT" ELSE "operator"]

\* SyntaxHighlighter.GetHighlightMap with every strategy the Go one
GetHighlightMap_always(current, src) == GoHighlightMap(src)

\* SyntaxHighlighter.GetHighlightMap: the empty map without a current
\* strategy, else the map of the strategy (the Go one is the only one)
GetHighlightMap(current, src) ==
  IF current = <<>> THEN <<>> ELSE GoHighlightMap(src)

\* -------------------------------------------------------- highlight cache
\* A HighlightCache is [cache, retention, lastOffset]; cache is a function
\* from the line indices that have an entry to their highlight maps.  Its
\* highlighter is the SyntaxHighlighter of the editor.
NewHighlightCache(retention) ==
  [cache |-> <<>>, retention |-> retention, lastOffset |-> -1]

\* Clear
Clear(c) == [c EXCEPT !.cache = <<>>]

\* the indices Update looks at
UpdateRange(c, offsetY, height, lines) ==
  LET lo == offsetY - c.retention * height
      hi == offsetY + c.retention * height
      from == IF lo < 0 THEN 0 ELSE lo
      to == IF hi > Len(lines) THEN Len(lines) ELSE hi
  IN from..(to - 1)

\* Update that computes every index of the window again
Update_recompute(c, current, offsetY, height, lines) ==
  LET batch == UpdateRange(c, offsetY, height, lines)
  IN [c EXCEPT !.cache =
        [i \in DOMAIN c.cache \cup batch |->
           IF i \in batch THEN GetHighlightMap(current, At(lines, i))
           ELSE c.cache[i]]]

\* Update: current is the strategy of the highlighter
Update(c, current, offsetY, height, lines) ==
  LET batch == {i \in UpdateRange(c, offsetY, height, lines) : i \notin DOMAIN c.cache}
  IN [c EXCEPT !.cache =
        [i \in DOMAIN c.cache \cup batch |->
           IF i \in batch THEN GetHighlightMap(current, At(lines, i))
           ELSE c.cache[i]]]

\* Exists
Exists(c, lineIndex) == lineIndex \in DOMAIN c.cache

\* Get: the nil map, which reads as the empty map, for an absent index
Get(c, lineIndex) == IF Exists(c, lineIndex) THEN c.cache[lineIndex] ELSE <<>>

\* ClearLine that removes the entries from lineIndex on
ClearLine_tail(c, lineIndex) ==
  [c EXCEPT !.cache = [i \in {j \in DOMAIN c.cache : j < lineIndex} |-> c.cache[i]]]

\* ClearLine
ClearLine(c, lineIndex) ==
  [c EXCEPT !.cache = [i \in DOMAIN c.cache \ {lineIndex} |-> c.cache[i]]]

\* ------------------------------------------------------------------ files
\* The file system is a function from paths to files; a path outside its
\* domain does not exist.  A file is [dir, data]: data is the content as a
\* sequence of runes, dir says the path is a directory (os.Open succeeds on
\* it and the first read fails).
File(data) == [dir |-> FALSE, data |-> data]
Dir == [dir |-> TRUE, data |-> <<>>]

DropCR(s) == IF s # <<>> /\ s[Len(s)] = CR THEN SubSeq(s, 1, Len(s) - 1) ELSE s

\* bufio.Scanner with the default split function bufio.ScanLines: the
\* tokens of data, each without its line terminator; a final line without
\* terminator is a token when it is not empty
RECURSIVE ScanLines(_)
ScanLines(data) ==
  LET i == IndexIn(data, {NL}, 1)
  IN IF data = <<>> THEN <<>>
     ELSE IF i = 0 THEN <<DropCR(data)>>
     ELSE <<DropCR(SubSeq(data, 1, i - 1))>> \o ScanLines(SubSeq(data, i + 1, Len(data)))

\* What the environment decides about the file operations of one command is
\* a record io.  io.failAfter = -1 when every read succeeds, k >= 0 when the
\* scanner stops with an error after it delivered k tokens (an I/O error,
\* or bufio.ErrTooLong on token k+1).  io.outcome is "ok", "open" when
\* os.OpenFile fails, "write" when a WriteString fails, "flush" when only
\* the deferred writer.Flush fails (its error is dropped); io.written is
\* the number of lines that reached the file before a failure.
\* loadFile: the editor after the call and the error it returns ("" for
\* nil, "open", "read")
loadFile(e, filename, files, failAfter) ==
  LET parts == Split(filename, ":")
      path == Clean(parts[1])
      line == IF Len(parts) > 1 THEN Atoi(parts[2]) - 1 ELSE 0
      col == IF Len(parts) > 2 THEN Atoi(parts[3]) - 1 ELSE 0
  IN IF path \notin DOMAIN files
     THEN [e |-> e, err |-> "open"]
     ELSE LET tokens == ScanLines(files[path].data)
              stop == IF files[path].dir THEN 0 ELSE failAfter
          IN IF stop >= 0
             THEN [e |-> [e EXCEPT !.lines = Slice(tokens, 0, Min(stop, Len(tokens)))],
                   err |-> "read"]
             ELSE LET ls == IF tokens = <<>> THEN << <<>> >> ELSE tokens
                      lineOk == line >= 0 /\ line < Len(ls)
                      colOk == lineOk /\ col >= 0 /\ col < Len(At(ls, line))
                  IN [e |-> [e EXCEPT !.lines = ls,
                                      !.cursorY = IF lineOk THEN line ELSE 0,
                                      !.cursorX = IF colOk THEN col ELSE 0,
                                      !.highlighter = SetFileExtension(Ext(path)),
                                      !.currentFilename = path,
                                      !.dirty = TRUE],
                      err |-> ""]

\* the bytes saveFile writes for a buffer: every line followed by "\n"
RECURSIVE fileBytes(_)
fileBytes(ls) ==
  IF ls = <<>> THEN <<>> ELSE Head(ls) \o <<NL>> \o fileBytes(Tail(ls))

\* saveFile without the assignment to currentFilename
saveFile_keepName(e, filename, files, outcome, written) ==
  LET path == Clean(filename)
      saved(ls) == [p \in DOMAIN files \cup {path} |->
                      IF p = path THEN File(fileBytes(ls)) ELSE files[p]]
      part == Slice(e.lines, 0, Min(written, Len(e.lines)))
      res == IF path \in DOMAIN files /\ files[path].dir THEN "open" ELSE outcome
  IN CASE res = "open" ->
            [e |-> e, files |-> files, err |-> "create", dropped |-> ""]
       [] res = "write" ->
            [e |-> e, files |-> saved(part), err |-> "write", dropped |-> ""]
       [] res = "flush" ->
            [e |-> showStatus(e, <<"File saved">>),
             files |-> saved(part), err |-> "", dropped |-> "flush"]
       [] OTHER ->
            [e |-> showStatus(e, <<"File saved">>),
             files |-> saved(e.lines), err |-> "", dropped |-> ""]

\* saveFile: the editor, the file system and the error after the call ("" for
\* nil, "create" when os.OpenFile fails, "write" when a WriteString fails);
\* dropped is "flush" when the deferred writer.Flush failed, whose error
\* the function does not return.
\* O_TRUNC empties the file at open; a failed write or flush leaves it with
\* the lines written before the failure, written lines of them.
saveFile(e, filename, files, outcome, written) ==
  LET path == Clean(filename)
      saved(ls) == [p \in DOMAIN files \cup {path} |->
                      IF p = path THEN File(fileBytes(ls)) ELSE files[p]]
      part == Slice(e.lines, 0, Min(written, Len(e.lines)))
      res == IF path \in DOMAIN files /\ files[path].dir THEN "open" ELSE outcome
  IN CASE res = "open" ->
            [e |-> e, files |-> files, err |-> "create", dropped |-> ""]
       [] res = "write" ->
            [e |-> e, files |-> saved(part), err |-> "write", dropped |-> ""]
       [] res = "flush" ->
            [e |-> showStatus([e EXCEPT !.currentFilename = path], <<"File saved">>),
             files |-> saved(part), err |-> "", dropped |-> "flush"]
       [] OTHER ->
            [e |-> showStatus([e EXCEPT !.currentFilename = path], <<"File saved">>),
             files |-> saved(e.lines), err |-> "", dropped |-> ""]

\* ---------------------------------------------------------------- commands
\* The result of a command is [e, files, quit, ioErr]: the editor, the file
\* system, whether the process exited, and how the command failed: the error
\* loadFile or saveFile returned to it, "nofile" when it found no filename,
\* "unknown" when executeCommand rejected it, "flush" when saveFile dropped
\* the error of its Flush, "" when nothing failed.
Result(e, files) == [e |-> e, files |-> files, quit |-> FALSE, ioErr |-> ""]

Failed(e, files, err) == [e |-> e, files |-> files, quit |-> FALSE, ioErr |-> err]

\* executeEditCommand
executeEditCommand(e, command, files, io) ==
  LET filename == Trim(TrimSpace(Slice(command, 2, Len(command))), {"\""})
      r == loadFile(e, filename, files, io.failAfter)
  IN IF filename = <<>>
     THEN Failed(showStatus(e, <<errorNoFilename, ":e">>), files, "nofile")
     ELSE IF r.err # ""
     THEN Failed(showStatus(r.e, <<errorOpeningFile, r.err>>), files, r.err)
     ELSE Result(r.e, files)

\* executeReloadCommand
executeReloadCommand(e, files, io) ==
  LET r == loadFile(e, e.currentFilename, files, io.failAfter)
  IN IF e.currentFilename # <<>>
     THEN IF r.err # ""
          THEN Failed(showStatus(r.e, <<errorReadingFile, r.err>>), files, r.err)
          ELSE Result(r.e, files)
     ELSE Failed(showStatus(e, <<errorNoFilename, ":e">>), files, "nofile")

\* executeSaveAsCommand
executeSaveAsCommand(e, name, files, io) ==
  LET filename == TrimSpace(name)
      r == saveFile(e, filename, files, io.outcome, io.written)
  IN IF filename # <<>>
     THEN IF r.err # ""
          THEN Failed(showStatus(r.e, <<errorWritingFile, r.err>>), r.files, r.err)
          ELSE Failed(r.e, r.files, r.dropped)
     ELSE Failed(showStatus(e, <<errorNoFilename, ":w">>), files, "nofile")

\* executeSaveCommand without the test of currentFilename
executeSaveCommand_noTest(e, files, io) ==
  LET r == saveFile(e, e.currentFilename, files, io.outcome, io.written)
  IN IF r.err # ""
     THEN Failed(showStatus(r.e, <<errorWritingFile, r.err>>), r.files, r.err)
     ELSE Failed(r.e, r.files, r.dropped)

\* executeSaveCommand
executeSaveCommand(e, files, io) ==
  LET r == saveFile(e, e.currentFilename, files, io.outcome, io.written)
  IN IF e.currentFilename # <<>>
     THEN IF r.err # ""
          THEN Failed(showStatus(r.e, <<errorWritingFile, r.err>>), r.files, r.err)
          ELSE Failed(r.e, r.files, r.dropped)
     ELSE Failed(showStatus(e, <<errorNoFilename, ":w">>), files, "nofile")

\* toggleShowLineNumbers, toggleHighlightCurrentLine
toggleShowLineNumbers(e) ==
  [e EXCEPT !.showLineNumbers = ~e.showLineNumbers, !.dirty = TRUE]

toggleHighlightCurrentLine(e) ==
  [e EXCEPT !.highlightCurrentLine = ~e.highlightCurrentLine, !.dirty = TRUE]

\* executeCommand with q accepted whatever follows it
executeCommand_quitArgs(e, command, files, io) ==
  LET unknown == [res |-> Failed(e, files, "unknown"), err |-> <<errorUnknownCommand>>]
      done(r) == [res |-> r, err |-> <<>>]
      parts == Fields(Slice(command, 1, Len(command)))
  IN IF Len(command) < minCommandLength THEN unknown
     ELSE IF At(command, 0) # ":" THEN unknown
     ELSE IF Len(parts) = 0 THEN unknown
     ELSE CASE parts[1] = <<"e">> ->
                 IF Len(parts) = 1 THEN done(executeReloadCommand(e, files, io))
                 ELSE done(executeEditCommand(e, command, files, io))
            [] parts[1] = <<"w">> ->
                 IF Len(parts) = 1 THEN done(executeSaveCommand(e, files, io))
                 ELSE done(executeSaveAsCommand(e, Join(Tail(parts)), files, io))
            [] parts[1] = <<"q">> -> done([Result(e, files) EXCEPT !.quit = TRUE])
            [] parts[1] = <<"l", "n">> -> done(Result(toggleShowLineNumbers(e), files))
            [] parts[1] = <<"h", "l">> -> done(Result(toggleHighlightCurrentLine(e), files))
            [] OTHER -> unknown

\* executeCommand: the result of the command and the error it returns
\* (<<>> for nil)
executeCommand(e, command, files, io) ==
  LET unknown == [res |-> Failed(e, files, "unknown"), err |-> <<errorUnknownCommand>>]
      done(r) == [res |-> r, err |-> <<>>]
      parts == Fields(Slice(command, 1, Len(command)))
  IN IF Len(command) < minCommandLength THEN unknown
     ELSE IF At(command, 0) # ":" THEN unknown
     ELSE IF Len(parts) = 0 THEN unknown
     ELSE CASE parts[1] = <<"e">> ->
                 IF Len(parts) = 1 THEN done(executeReloadCommand(e, files, io))
                 ELSE done(executeEditCommand(e, command, files, io))
            [] parts[1] = <<"w">> ->
                 IF Len(parts) = 1 THEN done(executeSaveCommand(e, files, io))
                 ELSE done(executeSaveAsCommand(e, Join(Tail(parts)), files, io))
            [] parts[1] = <<"q">> ->
                 IF Len(parts) = 1 THEN done([Result(e, files) EXCEPT !.quit = TRUE])
                 ELSE unknown
            [] parts[1] = <<"l", "n">> -> done(Result(toggleShowLineNumbers(e), files))
            [] parts[1] = <<"h", "l">> -> done(Result(toggleHighlightCurrentLine(e), files))
            [] OTHER -> unknown

\* handleCommandInput that stays in command entry when the command fails
commandInputKey_stayOnError(e, ev, files, io) ==
  LET x == executeCommand(e, e.cmd, files, io)
      shown == IF x.err # <<>> THEN showStatus(x.res.e, <<"Error">> \o x.err)
               ELSE x.res.e
      leave(ed) == [ed EXCEPT !.cmd = <<>>, !.inCommandMode = FALSE, !.dirty = TRUE]
  IN CASE ev.key = "KeyEsc" ->
            [res |-> Result(leave(e), files), inCmd |-> FALSE]
       [] ev.key = "KeyEnter" ->
            IF x.res.ioErr # ""
            THEN [res |-> [x.res EXCEPT !.e = shown], inCmd |-> TRUE]
            ELSE [res |-> [x.res EXCEPT !.e = leave(shown)], inCmd |-> FALSE]
       [] ev.key = "KeyBackspace" ->
            [res |-> Result(IF Len(e.cmd) > 1
                            THEN [e EXCEPT !.cmd = Slice(e.cmd, 0, Len(e.cmd) - 1),
                                           !.dirty = TRUE]
                            ELSE e, files),
             inCmd |-> TRUE]
       [] ev.key = "KeyRune" ->
            [res |-> Result([e EXCEPT !.cmd = Append(e.cmd, ev.rune), !.dirty = TRUE], files),
             inCmd |-> TRUE]
       [] OTHER -> [res |-> Result(e, files), inCmd |-> TRUE]

\* handleCommandInput whose Enter does not empty the command string
commandInputKey_keepCmd(e, ev, files, io) ==
  LET x == executeCommand(e, e.cmd, files, io)
      shown == IF x.err # <<>> THEN showStatus(x.res.e, <<"Error">> \o x.err)
               ELSE x.res.e
      leave(ed) == [ed EXCEPT !.cmd = <<>>, !.inCommandMode = FALSE, !.dirty = TRUE]
  IN CASE ev.key = "KeyEsc" ->
            [res |-> Result(leave(e), files), inCmd |-> FALSE]
       [] ev.key = "KeyEnter" ->
            [res |-> [x.res EXCEPT !.e = [shown EXCEPT !.inCommandMode = FALSE,
                                                       !.dirty = TRUE]],
             inCmd |-> FALSE]
       [] ev.key = "KeyBackspace" ->
            [res |-> Result(IF Len(e.cmd) > 1
                            THEN [e EXCEPT !.cmd = Slice(e.cmd, 0, Len(e.cmd) - 1),
                                           !.dirty = TRUE]
                            ELSE e, files),
             inCmd |-> TRUE]
       [] ev.key = "KeyRune" ->
            [res |-> Result([e EXCEPT !.cmd = Append(e.cmd, ev.rune), !.dirty = TRUE], files),
             inCmd |-> TRUE]
       [] OTHER -> [res |-> Result(e, files), inCmd |-> TRUE]

\* handleCommandInput whose Backspace also erases the marker
commandInputKey_eraseMarker(e, ev, files, io) ==
  LET x == executeCommand(e, e.cmd, files, io)
      shown == IF x.err # <<>> THEN showStatus(x.res.e, <<"Error">> \o x.err)
               ELSE x.res.e
      leave(ed) == [ed EXCEPT !.cmd = <<>>, !.inCommandMode = FALSE, !.dirty = TRUE]
  IN CASE ev.key = "KeyEsc" ->
            [res |-> Result(leave(e), files), inCmd |-> FALSE]
       [] ev.key = "KeyEnter" ->
            [res |-> [x.res EXCEPT !.e = leave(shown)], inCmd |-> FALSE]
       [] ev.key = "KeyBackspace" ->
            [res |-> Result(IF Len(e.cmd) > 0
                            THEN [e EXCEPT !.cmd = Slice(e.cmd, 0, Len(e.cmd) - 1),
                                           !.dirty = TRUE]
                            ELSE e, files),
             inCmd |-> TRUE]
       [] ev.key = "KeyRune" ->
            [res |-> Result([e EXCEPT !.cmd = Append(e.cmd, ev.rune), !.dirty = TRUE], files),
             inCmd |-> TRUE]
       [] OTHER -> [res |-> Result(e, files), inCmd |-> TRUE]

\* handleCommandInput, one event of its loop.  The result is the command
\* result and inCmd, the loop variable.
commandInputKey(e, ev, files, io) ==
  LET x == executeCommand(e, e.cmd, files, io)
      shown == IF x.err # <<>> THEN showStatus(x.res.e, <<"Error">> \o x.err)
               ELSE x.res.e
      leave(ed) == [ed EXCEPT !.cmd = <<>>, !.inCommandMode = FALSE, !.dirty = TRUE]
  IN CASE ev.key = "KeyEsc" ->
            [res |-> Result(leave(e), files), inCmd |-> FALSE]
       [] ev.key = "KeyEnter" ->
            [res |-> [x.res EXCEPT !.e = leave(shown)], inCmd |-> FALSE]
       [] ev.key = "KeyBackspace" ->
            [res |-> Result(IF Len(e.cmd) > 1
                            THEN [e EXCEPT !.cmd = Slice(e.cmd, 0, Len(e.cmd) - 1),
                                           !.dirty = TRUE]
                            ELSE e, files),
             inCmd |-> TRUE]
       [] ev.key = "KeyRune" ->
            [res |-> Result([e EXCEPT !.cmd = Append(e.cmd, ev.rune), !.dirty = TRUE], files),
             inCmd |-> TRUE]
       [] OTHER -> [res |-> Result(e, files), inCmd |-> TRUE]

\* handleCommandMode that leaves command mode on every key but ':'
handleCommandMode_anyKey(e, ev) ==
  CASE ev.key = "KeyRune" /\ ev.rune = ":" ->
         [e |-> [e EXCEPT !.cmd = <<":">>, !.dirty = TRUE], input |-> TRUE]
    [] OTHER ->
         [e |-> [e EXCEPT !.inCommandMode = FALSE, !.dirty = TRUE], input |-> FALSE]

\* handleCommandMode that enters the command line without the marker
handleCommandMode_noMarker(e, ev) ==
  CASE ev.key = "KeyEsc" ->
         [e |-> [e EXCEPT !.inCommandMode = FALSE, !.dirty = TRUE], input |-> FALSE]
    [] ev.key = "KeyRune" /\ ev.rune = ":" ->
         [e |-> [e EXCEPT !.dirty = TRUE], input |-> TRUE]
    [] OTHER -> [e |-> e, input |-> FALSE]

\* handleCommandMode that hands every other key to handleInsertMode
handleCommandMode_edits(e, ev) ==
  CASE ev.key = "KeyEsc" ->
         [e |-> [e EXCEPT !.inCommandMode = FALSE, !.dirty = TRUE], input |-> FALSE]
    [] ev.key = "KeyRune" /\ ev.rune = ":" ->
         [e |-> [e EXCEPT !.cmd = <<":">>, !.dirty = TRUE], input |-> TRUE]
    [] OTHER -> [e |-> handleInsertMode(e, ev), input |-> FALSE]

\* handleCommandMode up to its call of handleCommandInput: the editor, and
\* whether the command line is entered
handleCommandMode(e, ev) ==
  CASE ev.key = "KeyEsc" ->
         [e |-> [e EXCEPT !.inCommandMode = FALSE, !.dirty = TRUE], input |-> FALSE]
    [] ev.key = "KeyRune" /\ ev.rune = ":" ->
         [e |-> [e EXCEPT !.cmd = <<":">>, !.dirty = TRUE], input |-> TRUE]
    [] OTHER -> [e |-> e, input |-> FALSE]

\* ================================================================ the state
VARIABLES
  editor,      \* the Editor of main()
  pc,          \* where the process is: "start" before the load of os.Args[1],
               \* "poll" / "adjust" / "draw" in the loop of main, "cmddraw" /
               \* "cmdpoll" in the loop of handleCommandInput, "exit" after
               \* os.Exit, "panic" after a run-time panic
  fs,          \* the file system
  ioErr,       \* history: how the load or the command of the step that led to
               \* this state failed: "" (it did not, or there was none),
               \* "open", "read" (loadFile), "create", "write" (saveFile),
               \* "flush" (the Flush error saveFile drops), "nofile",
               \* "unknown" (the command)
  loadFailed,  \* history: some loadFile call of this run returned an error
  hc,          \* the HighlightCache
  event,       \* history: the terminal event handled in the step that led
               \* to this state, NoEvent when the step handled none
  start,       \* history: the editor at the start of a run
  ops          \* history: the keys (the commands) handled since then

vars == <<editor, pc, fs, ioErr, loadFailed, hc, event, start, ops>>

\* the events: a key as KeyRune(r) or Key(k), a resize, none
NoEvent == [key |-> "", rune |-> ""]
EventResize == [key |-> "Resize", rune |-> ""]

\* one event of the loop of handleCommandInput, io being what the
\* environment decides about the file operations of the command
CommandInputEvent(ev, io) ==
  \E r \in {commandInputKey(editor, ev, fs, io)} :
     /\ event' = ev
     /\ IF r.res.quit
        THEN pc' = "exit" /\ ioErr' = "" /\ UNCHANGED <<editor, fs, loadFailed>>
        ELSE /\ editor' = r.res.e
             /\ fs' = r.res.files
             /\ ioErr' = r.res.ioErr
             /\ loadFailed' = (loadFailed \/ r.res.ioErr \in {"open", "read"})
             /\ pc' = IF r.inCmd THEN "cmddraw" ELSE "adjust"

\* ------------------------------------------------------------------ inputs
GoPath == <<".", "g", "o">>
DirPath == <<"d">>
NoPath == <<"n">>

\* the files of the main specification: a Go source of two lines, the
\* second without terminator, and a directory; NoPath does not exist
InitialFiles ==
  [p \in {GoPath, DirPath} |->
     IF p = GoPath THEN File(<<TAB, "a", NL, "a">>) ELSE Dir]

\* the argument of the process: none (<<>>) or a file name
Args == {<<>>, GoPath, DirPath}

Runes == {"a"}

InsertKeys ==
  {KeyRune(r) : r \in Runes} \cup
  {Key(k) : k \in {"KeyEsc", "KeyTab", "KeyBackspace", "KeyDelete", "KeyEnter",
                   "KeyLeft", "KeyRight", "KeyUp", "KeyDown", "KeyPgUp",
                   "KeyPgDn", "KeyHome", "KeyEnd"}}

\* the sizes screen.Size() returns
Sizes == {MaxW} \X ((MaxH - 1)..MaxH)

\* the command lines the user types in the main specification
MainCommands ==
  { <<":", "e", " ">> \o GoPath,
    <<":", "e", " ">> \o NoPath,
    <<":", "e">>,
    <<":", "q">> }

IsPrefix(s, t) == Len(s) <= Len(t) /\ SubSeq(t, 1, Len(s)) = s

CommandRunes == {":", "e", " ", ".", "g", "o", "d", "n", "l", "x", "q", "w", "f", "h"}

\* no file operation fails
NoIO == [failAfter |-> -1, outcome |-> "ok", written |-> 0]

\* the read outcomes the environment chooses from
ReadIO == {[failAfter |-> k, outcome |-> "ok", written |-> 0] : k \in (-1)..MaxLines}

\* the number of runes in a buffer
RECURSIVE RuneCount(_)
RuneCount(ls) == IF ls = <<>> THEN 0 ELSE Len(Head(ls)) + RuneCount(Tail(ls))

\* the keys that keep the buffer within the bounds of the model
WithinBounds(e, ev) ==
  /\ ev.key \in {"KeyRune", "KeyTab"} => RuneCount(e.lines) < MaxRunes
  /\ ev.key = "KeyEnter" => Len(e.lines) < MaxLines

\* ============================================== the process of main()
history == <<start, ops>>

Init ==
  /\ editor = NewEditor
  /\ pc = "start"
  /\ fs = InitialFiles
  /\ ioErr = ""
  /\ loadFailed = FALSE
  /\ hc = NewHighlightCache(editorRetention)
  /\ event = NoEvent
  /\ start = NewEditor
  /\ ops = <<>>

\* main before its loop: with an argument, loadFile, and a status message
\* when it fails
Startup ==
  /\ pc = "start"
  /\ \E arg \in Args, io \in ReadIO :
       LET r == loadFile(editor, arg, fs, io.failAfter)
       IN IF arg = <<>>
          THEN UNCHANGED <<editor, ioErr, loadFailed>>
          ELSE /\ editor' = IF r.err # ""
                            THEN showStatus(r.e, <<"Error loading file", r.err>>)
                            ELSE r.e
               /\ ioErr' = r.err
               /\ loadFailed' = (loadFailed \/ r.err # "")
  /\ pc' = "poll"
  /\ event' = NoEvent
  /\ UNCHANGED <<fs, hc, history>>

\* the loop of main, a key event in insert mode: handleInsertMode
InsertKey ==
  /\ pc = "poll"
  /\ ~editor.inCommandMode
  /\ \E ev \in InsertKeys :
       /\ WithinBounds(editor, ev)
       /\ event' = ev
       /\ IF handleInsertModePanics(editor, ev)
          THEN pc' = "panic" /\ UNCHANGED editor
          ELSE pc' = "adjust" /\ editor' = handleInsertMode(editor, ev)
  /\ ioErr' = ""
  /\ UNCHANGED <<fs, loadFailed, hc, history>>

\* the loop of main, a key event in command mode: handleCommandMode, which
\* on ':' goes on into the loop of handleCommandInput
CommandKey ==
  /\ pc = "poll"
  /\ editor.inCommandMode
  /\ \E ev \in InsertKeys \cup {KeyRune(":")} :
       LET r == handleCommandMode(editor, ev)
       IN /\ editor' = r.e
          /\ pc' = IF r.input THEN "cmddraw" ELSE "adjust"
          /\ event' = ev
  /\ ioErr' = ""
  /\ UNCHANGED <<fs, loadFailed, hc, history>>

\* the loop of main, a resize event: updateScreenSize
Resize ==
  /\ pc = "poll"
  /\ \E size \in Sizes : editor' = updateScreenSize(editor, size)
  /\ pc' = "adjust"
  /\ event' = EventResize
  /\ ioErr' = ""
  /\ UNCHANGED <<fs, loadFailed, hc, history>>

\* the loop of main after the event: adjustOffsets
AdjustOffsets ==
  /\ pc = "adjust"
  /\ editor' = adjustOffsets(editor)
  /\ pc' = "draw"
  /\ ioErr' = ""
  /\ event' = NoEvent
  /\ UNCHANGED <<fs, loadFailed, hc, history>>

\* the loop of main, last step: draw
Draw ==
  /\ pc = "draw"
  /\ IF drawPanics(editor)
     THEN pc' = "panic" /\ UNCHANGED editor
     ELSE pc' = "poll" /\ editor' = draw(editor)
  /\ ioErr' = ""
  /\ event' = NoEvent
  /\ UNCHANGED <<fs, loadFailed, hc, history>>

\* the loop of handleCommandInput: draw
CommandInputDraw ==
  /\ pc = "cmddraw"
  /\ IF drawPanics(editor)
     THEN pc' = "panic" /\ UNCHANGED editor
     ELSE pc' = "cmdpoll" /\ editor' = draw(editor)
  /\ ioErr' = ""
  /\ event' = NoEvent
  /\ UNCHANGED <<fs, loadFailed, hc, history>>

\* the keys of the command line: a rune is typed only when it continues one
\* of the command lines in cmds
CommandInputKeys(cmds) ==
  {KeyRune(r) : r \in {x \in CommandRunes :
                         \E c \in cmds : IsPrefix(Append(editor.cmd, x), c)}}
  \cup {Key("KeyEsc"), Key("KeyEnter"), Key("KeyBackspace"), Key("KeyLeft")}

\* the loop of handleCommandInput, a key event.  When the loop ends the
\* call returns through handleCommandMode into the loop of main; the quit
\* command exits the process inside executeCommand.
CommandInputKey(cmds, ios) ==
  /\ pc = "cmdpoll"
  /\ \E ev \in CommandInputKeys(cmds) :
     \E io \in IF ev.key = "KeyEnter" THEN ios ELSE {NoIO} :
       CommandInputEvent(ev, io)
  /\ UNCHANGED <<hc, history>>

\* the loop of handleCommandInput, a resize event
CommandInputResize ==
  /\ pc = "cmdpoll"
  /\ \E size \in Sizes : editor' = updateScreenSize(editor, size)
  /\ pc' = "cmddraw"
  /\ event' = EventResize
  /\ ioErr' = ""
  /\ UNCHANGED <<fs, loadFailed, hc, history>>

Next ==
  \/ Startup
  \/ InsertKey
  \/ CommandKey
  \/ Resize
  \/ AdjustOffsets
  \/ Draw
  \/ CommandInputDraw
  \/ CommandInputKey(MainCommands, ReadIO)
  \/ CommandInputResize

Spec == Init /\ [][Next]_vars

\* ===================================================== insert-mode edit runs
\* An edit run starts from any buffer within the bounds with the cursor at
\* any position of it, and applies up to MaxOps keys to handleInsertMode;
\* start keeps the editor of the first state and ops the keys applied.
EditRunes == {"a", TAB}

\* the lines of at most n runes
LinesUpTo(n) == UNION {[1..k -> EditRunes] : k \in 0..n}

Buffers ==
  {ls \in UNION {[1..k -> LinesUpTo(MaxRunes)] : k \in 1..MaxLines} :
     RuneCount(ls) <= MaxRunes}

EditStates ==
  {[NewEditor EXCEPT !.lines = ls, !.cursorY = y, !.cursorX = x, !.w = MaxW, !.h = MaxH] :
     <<ls, y, x>> \in {t \in Buffers \X (0..(MaxLines - 1)) \X (0..MaxRunes) :
                         /\ t[2] < Len(t[1])
                         /\ t[3] <= Len(At(t[1], t[2]))}}

EditKeys ==
  {KeyRune("a"), Key("KeyTab"), Key("KeyBackspace"), Key("KeyEnter")}

EditInit ==
  /\ editor \in EditStates
  /\ pc = "poll"
  /\ fs = InitialFiles
  /\ ioErr = ""
  /\ loadFailed = FALSE
  /\ hc = NewHighlightCache(editorRetention)
  /\ event = NoEvent
  /\ start = editor
  /\ ops = <<>>

\* one key of the run: handleInsertMode
EditKey ==
  /\ Len(ops) < MaxOps
  /\ \E ev \in EditKeys :
       /\ ~handleInsertModePanics(editor, ev)
       /\ editor' = handleInsertMode(editor, ev)
       /\ ops' = Append(ops, ev)
       /\ event' = ev
  /\ UNCHANGED <<pc, fs, ioErr, loadFailed, hc, start>>

EditNext == EditKey

SpecEdit == EditInit /\ [][EditNext]_vars

\* ============================================================ command runs
\* A command run starts in insert mode with a small buffer and a file of
\* any content within the bounds at SrcPath, and submits up to MaxCmds
\* command lines, each typed after Escape and ':' and ended by Enter; start
\* keeps the editor of the first state and ops the command lines typed.
SrcPath == <<"f">>
NewPath == <<"g">>

FileRunes == {"a", NL}

FileContents == UNION {[1..k -> FileRunes] : k \in 0..MaxFileLen}

CmdFiles(data) ==
  [p \in {SrcPath, DirPath} |-> IF p = SrcPath THEN File(data) ELSE Dir]

\* the editor between two events of the loop of main: drawn, in insert mode
CmdStates ==
  {[e EXCEPT !.dirty = FALSE] :
     e \in {x \in EditStates :
              /\ x.lines \in { << <<>> >>, << <<"a">>, <<>> >> }
              /\ x.cursorX = 0}}

RunCommands ==
  { <<":">>, <<":", " ">>, <<":", "x">>,
    <<":", "e">>,
    <<":", "e", " ">> \o SrcPath,
    <<":", "e", " ">> \o NoPath,
    <<":", "e", " ">> \o DirPath,
    <<":", "w">>,
    <<":", "w", " ">> \o NewPath,
    <<":", "w", " ">> \o DirPath,
    <<":", "q">>, <<":", "q", " ", "x">>,
    <<":", "l", "n">>, <<":", "h", "l">> }

\* the write outcomes the environment chooses from
SaveIO ==
  {[failAfter |-> -1, outcome |-> "ok", written |-> 0],
   [failAfter |-> -1, outcome |-> "open", written |-> 0]} \cup
  {[failAfter |-> -1, outcome |-> o, written |-> n] :
     o \in {"write", "flush"}, n \in 0..(MaxLines - 1)}

\* the first word of a command line
Verb(c) ==
  LET parts == Fields(Slice(c, 1, Len(c)))
  IN IF Len(c) < 1 \/ parts = <<>> THEN <<>> ELSE parts[1]

\* the outcomes that matter to command line c
CommandIOs(c) ==
  IF Verb(c) = <<"e">> THEN ReadIO
  ELSE IF Verb(c) = <<"w">> THEN SaveIO
  ELSE {NoIO}

\* the loop of handleCommandInput over the runes rs: draw, then the key
RECURSIVE typeRunes(_, _, _)
typeRunes(e, rs, files) ==
  IF rs = <<>> THEN e
  ELSE typeRunes(commandInputKey(draw(e), KeyRune(Head(rs)), files, NoIO).res.e,
                 Tail(rs), files)

\* Escape in insert mode and the rest of that turn of the loop of main,
\* then ':' and the runes of command line c after it
afterEscape(e) == adjustOffsets(handleInsertMode(e, Key("KeyEsc")))

typeCommand(e, c, files) ==
  typeRunes(handleCommandMode(draw(afterEscape(e)), KeyRune(":")).e, Tail(c), files)

CmdInit ==
  /\ editor \in CmdStates
  /\ pc = "poll"
  /\ fs \in {CmdFiles(data) : data \in FileContents}
  /\ ioErr = ""
  /\ loadFailed = FALSE
  /\ hc = NewHighlightCache(editorRetention)
  /\ event = NoEvent
  /\ start = editor
  /\ ops = <<>>

\* the user types a command line
TypeCommand ==
  /\ pc = "poll"
  /\ ~editor.inCommandMode
  /\ Len(ops) < MaxCmds
  /\ \E c \in RunCommands :
       /\ IF drawPanics(afterEscape(editor))
          THEN pc' = "panic" /\ UNCHANGED editor
          ELSE pc' = "cmddraw" /\ editor' = typeCommand(editor, c, fs)
       /\ event' = IF Len(c) > 1 THEN KeyRune(c[Len(c)]) ELSE KeyRune(":")
       /\ ops' = Append(ops, c)
  /\ ioErr' = ""
  /\ UNCHANGED <<fs, loadFailed, hc, start>>

\* Enter at the end of the command line
CommandInputEnter ==
  /\ pc = "cmdpoll"
  /\ \E io \in CommandIOs(editor.cmd) : CommandInputEvent(Key("KeyEnter"), io)
  /\ UNCHANGED <<hc, history>>

CmdNext ==
  \/ TypeCommand
  \/ CommandInputDraw
  \/ CommandInputEnter
  \/ AdjustOffsets
  \/ Draw

SpecCmd == CmdInit /\ [][CmdNext]_vars

\* ================================================================= claims
\* the cursor is a position of the buffer
ValidCursor(e) ==
  /\ InRange(e.lines, e.cursorY)
  /\ 0 <= e.cursorX
  /\ e.cursorX <= Len(At(e.lines, e.cursorY))

\* the visual column of the cursor: the logical column plus spacesPerTab-1
\* for every tab before it on its line
visualColumn(e) == e.cursorX + calculateCursorOffsetX(e, At(e.lines, e.cursorY))

\* C1: in every reachable state the buffer contains at least one line
C1_BufferHasALine == Len(editor.lines) >= 1

\* C2: in every reachable state 0 <= cursorY < number of lines and
\* 0 <= cursorX <= length of line cursorY
C2_CursorInBuffer == ValidCursor(editor)

\* C3: after a load has failed the editor keeps running: no later render
\* pass and no later key event makes an out-of-range access (stated for the
\* runs in which the screen size is set, h >= 1, when the process stops)
C3_LoadFailureSurvived == (loadFailed /\ editor.h >= 1) => pc # "panic"

\* C4: a load that fails (open failure or read failure) leaves the buffer
\* lines, the cursor, the current filename and the active highlighter as
\* they were before the load was attempted
C4_FailedLoadKeepsState ==
  [][ioErr' \in {"open", "read"} =>
       /\ editor'.lines = editor.lines
       /\ editor'.cursorX = editor.cursorX
       /\ editor'.cursorY = editor.cursorY
       /\ editor'.currentFilename = editor.currentFilename
       /\ editor'.highlighter = editor.highlighter]_vars

\* C8: after one adjustOffsets call, for a screen height h the terminal
\* reported, offsetY <= cursorY < offsetY + h - 1: the cursor row is not on
\* the bottom screen row
C8_CursorRowAboveBar ==
  (pc = "draw" /\ editor.h >= 1) =>
     /\ editor.offsetY <= editor.cursorY
     /\ editor.cursorY < editor.offsetY + editor.h - 1

\* C9: after one adjustOffsets call, for a screen width w the terminal
\* reported, offsetX <= V < offsetX + w, where V is the visual column of
\* the cursor
C9_VisualColumnInView ==
  (pc = "draw" /\ editor.w >= 1 /\ ValidCursor(editor)) =>
     /\ editor.offsetX <= visualColumn(editor)
     /\ visualColumn(editor) < editor.offsetX + editor.w

\* C10: after one adjustOffsets call, for any screen size the editor holds,
\* the size of a freshly constructed editor included,
\* 0 <= offsetX <= cursorX and 0 <= offsetY <= cursorY
C10_OffsetsNotPastCursor ==
  pc = "draw" =>
     /\ 0 <= editor.offsetX /\ editor.offsetX <= editor.cursorX
     /\ 0 <= editor.offsetY /\ editor.offsetY <= editor.cursorY

\* ------------------------------------------------------- edit-run claims
IsInsert(ev) == ev.key \in {"KeyRune", "KeyTab"}

\* ks is n >= 1 inserted runes followed by n Backspace keys
InsertsThenBackspaces(ks) ==
  /\ Len(ks) >= 2
  /\ Len(ks) % 2 = 0
  /\ \A i \in 1..Len(ks) :
       IF 2 * i <= Len(ks) THEN IsInsert(ks[i]) ELSE ks[i].key = "KeyBackspace"

SameBufferAndCursor(e1, e2) ==
  /\ e1.lines = e2.lines
  /\ e1.cursorX = e2.cursorX
  /\ e1.cursorY = e2.cursorY

\* C5: n InsertChar operations (tabs included) followed by n Backspace
\* operations leave the buffer content and the cursor position as they were
C5_InsertBackspaceRoundTrip ==
  InsertsThenBackspaces(ops) => SameBufferAndCursor(editor, start)

\* a run of two runes, the first a tab, typed inside a line and erased again
C5_Witness ==
  /\ InsertsThenBackspaces(ops)
  /\ Len(ops) = 4
  /\ ops[1].key = "KeyTab"
  /\ start.cursorX > 0
  /\ start.cursorX < Len(At(start.lines, start.cursorY))

\* C6: SplitLine followed immediately by Backspace restores the whole buffer
\* and puts the cursor back where it was
C6_SplitThenJoin ==
  ops = <<Key("KeyEnter"), Key("KeyBackspace")>> => SameBufferAndCursor(editor, start)

\* a line of a two-line buffer split between two runes and joined again
C6_Witness ==
  /\ ops = <<Key("KeyEnter"), Key("KeyBackspace")>>
  /\ Len(start.lines) = 2
  /\ start.cursorX > 0
  /\ start.cursorX < Len(At(start.lines, start.cursorY))

\* C7: inserting a tab advances the logical column by 1 and the visual
\* column by the tab width; a Backspace right after it takes both back
C7_TabColumns ==
  /\ ops = <<Key("KeyTab")>> =>
       /\ editor.cursorX = start.cursorX + 1
       /\ visualColumn(editor) = visualColumn(start) + editor.spacesPerTab
  /\ ops = <<Key("KeyTab"), Key("KeyBackspace")>> =>
       /\ editor.cursorX = start.cursorX
       /\ visualColumn(editor) = visualColumn(start)

\* a tab typed after another tab, with a rune behind the cursor, and erased
C7_Witness ==
  /\ ops = <<Key("KeyTab"), Key("KeyBackspace")>>
  /\ start.cursorX = 1
  /\ At(start.lines, start.cursorY) = <<TAB, "a">>
  /\ visualColumn(editor) = defaultSpacesPerTab

\* ------------------------------------------------------ command-run claims
EditSrc == <<":", "e", " ">> \o SrcPath
SaveNew == <<":", "w", " ">> \o NewPath

\* the lines of a file content: the pieces between line terminators, a
\* terminator at the end of the content opening no further line
FileLines(data) ==
  LET pieces == Split(data, NL)
  IN IF pieces[Len(pieces)] = <<>> THEN SubSeq(pieces, 1, Len(pieces) - 1) ELSE pieces

\* content is the lines ls in order, each followed by one newline
HoldsLines(content, ls) == Split(content, NL) = Append(ls, <<>>)

\* a run that loaded the file at SrcPath and saved the buffer to NewPath,
\* no file operation failing
LoadedAndSaved ==
  /\ ops = <<EditSrc, SaveNew>>
  /\ pc = "adjust"
  /\ ~loadFailed
  /\ ioErr = ""

\* C11: loading a file of any content and saving the unmodified buffer to a
\* new path writes exactly the lines of the file in order, each followed by
\* one newline, and nothing else
C11_LoadSaveKeepsLines ==
  LoadedAndSaved => HoldsLines(fs[NewPath].data, FileLines(fs[SrcPath].data))

\* a step that submits a save command: Enter on a command line whose first
\* word is w
SaveStep ==
  /\ pc = "cmdpoll"
  /\ event'.key = "KeyEnter"
  /\ Verb(editor.cmd) = <<"w">>

SaveBare == <<":", "w">>

\* after the step the current filename is path, the file at path holds the
\* lines of the buffer, and no other file has changed
SavedTo(path) ==
  /\ editor'.currentFilename = path
  /\ path \in DOMAIN fs'
  /\ HoldsLines(fs'[path].data, editor.lines)
  /\ \A p \in DOMAIN fs \ {path} : p \in DOMAIN fs' /\ fs'[p] = fs[p]

\* C12: after a successful `w path` the current filename is path and the
\* file holds the lines of the buffer; a successful `w` without a path
\* writes to the current filename, so to the path of an earlier `w path`;
\* no save, successful or not, changes the lines or the cursor
C12_SaveSetsNameAndFile ==
  [][SaveStep =>
       /\ SameBufferAndCursor(editor', editor)
       /\ (ioErr' = "" /\ editor.cmd = SaveNew) => SavedTo(NewPath)
       /\ (ioErr' = "" /\ editor.cmd = SaveBare) => SavedTo(editor.currentFilename)
       /\ (ioErr' = "" /\ ops = <<SaveNew, SaveBare>>) => SavedTo(NewPath)]_vars

\* `w g` and then `w` have both succeeded on a buffer of two lines
C12_Witness ==
  /\ ops = <<SaveNew, SaveBare>>
  /\ pc = "adjust"
  /\ ioErr = ""
  /\ editor.currentFilename = NewPath
  /\ Len(editor.lines) = 2
  /\ HoldsLines(fs[NewPath].data, editor.lines)

\* the status message reports a failed write
ReportsWriteError(e) == e.status # <<>> /\ e.status[1] = errorWritingFile

\* C13: when a save fails at any step (creating the file, writing a line,
\* flushing the buffered output) the status message reports the write
\* error, not success, and the current filename is not changed
C13_SaveFailureReported ==
  [][(SaveStep /\ ioErr' \in {"create", "write", "flush"}) =>
       /\ ReportsWriteError(editor')
       /\ editor'.currentFilename = editor.currentFilename]_vars

ReloadBare == <<":", "e">>

\* the parts of the editor a command that does nothing leaves alone
SameDocument(e1, e2) ==
  /\ SameBufferAndCursor(e1, e2)
  /\ e1.offsetX = e2.offsetX
  /\ e1.offsetY = e2.offsetY
  /\ e1.currentFilename = e2.currentFilename
  /\ e1.highlighter = e2.highlighter

\* a step that submits `e` or `w` without a path while no file is current
NoFilenameStep ==
  /\ pc = "cmdpoll"
  /\ event'.key = "KeyEnter"
  /\ editor.cmd \in {ReloadBare, SaveBare}
  /\ editor.currentFilename = <<>>

\* C14: with no current filename, `e` and `w` submitted without a path set
\* the no-filename status message and change nothing else: no file is
\* opened or written, buffer, cursor, offsets and filename stay as they are
C14_NoFilenameOnlyStatus ==
  [][NoFilenameStep =>
       /\ editor'.status =
            <<errorNoFilename, IF editor.cmd = ReloadBare THEN ":e" ELSE ":w">>
       /\ ioErr' = "nofile"
       /\ fs' = fs
       /\ SameDocument(editor', editor)]_vars

\* `w` without a path was submitted on a buffer of two lines that has no
\* filename, after an `e` without a path
C14_Witness ==
  /\ ops = <<ReloadBare, SaveBare>>
  /\ pc = "adjust"
  /\ ioErr = "nofile"
  /\ editor.status = <<errorNoFilename, ":w">>
  /\ Len(editor.lines) = 2
  /\ editor.currentFilename = <<>>

KnownVerbs == { <<"e">>, <<"w">>, <<"q">>, <<"l", "n">>, <<"h", "l">> }

\* the words of a command line after its marker
Words(c) == IF c = <<>> THEN <<>> ELSE Fields(Slice(c, 1, Len(c)))

QuitArgs == <<":", "q", " ", "x">>

\* a step that submits a command line whose first word is no command, or q
\* followed by arguments
UnknownStep ==
  /\ pc = "cmdpoll"
  /\ event'.key = "KeyEnter"
  /\ \/ Verb(editor.cmd) \notin KnownVerbs
     \/ Verb(editor.cmd) = <<"q">> /\ Len(Words(editor.cmd)) > 1

\* C15: a submitted command whose first word is not one of e, w, q, ln, hl,
\* and q followed by arguments, sets the unknown-command status message and
\* changes nothing else: buffer, cursor, offsets, filename and the two
\* toggles stay as they are, no file changes, the editor does not terminate
C15_UnknownOnlyStatus ==
  [][UnknownStep =>
       /\ editor'.status = <<"Error", errorUnknownCommand>>
       /\ ioErr' = "unknown"
       /\ pc' # "exit"
       /\ fs' = fs
       /\ SameDocument(editor', editor)
       /\ editor'.showLineNumbers = editor.showLineNumbers
       /\ editor'.highlightCurrentLine = editor.highlightCurrentLine]_vars

\* `q x` was rejected on a buffer of two lines, after the line numbers had
\* been switched off
C15_Witness ==
  /\ ops = << <<":", "l", "n">>, QuitArgs >>
  /\ pc = "adjust"
  /\ ioErr = "unknown"
  /\ editor.status = <<"Error", errorUnknownCommand>>
  /\ ~editor.showLineNumbers
  /\ Len(editor.lines) = 2

\* a step that submits a command line: Enter during command entry
EnterStep == pc = "cmdpoll" /\ event'.key = "KeyEnter"

\* the ways a submitted command fails
Failures == {"unknown", "nofile", "open", "read", "create", "write"}

\* C16 as stated: when a submitted command fails (unknown command, missing
\* filename, file open, read or write error) the mode after the failure is
\* the mode at submission, the editor is still in command mode
C16_FailureKeepsMode ==
  [][(EnterStep /\ ioErr' \in Failures) =>
       editor'.inCommandMode = editor.inCommandMode]_vars

\* C16 amended: when a submitted command fails the editor leaves command
\* mode as it does after a command that succeeds: command entry is over,
\* the mode is Insert, the command string is empty, and the failure shows
\* in the status message only
C16_FailureLeavesCommandMode ==
  [][(EnterStep /\ ioErr' \in Failures) =>
       /\ editor.inCommandMode
       /\ ~editor'.inCommandMode
       /\ pc' = "adjust"
       /\ editor'.cmd = <<>>
       /\ editor'.status # <<>>]_vars

\* a load whose read failed has been reported and the mode is Insert
C16_Witness ==
  /\ pc = "adjust"
  /\ event.key = "KeyEnter"
  /\ ioErr = "read"
  /\ editor.status = <<errorOpeningFile, "read">>
  /\ ~editor.inCommandMode

\* C17: after Enter during command entry, for every command string and
\* whether or not the command succeeds, the editor is in Insert mode and the
\* command string is empty, unless the command was quit, which terminates
C17_EnterReturnsToInsert ==
  [][EnterStep =>
       \/ pc' = "exit" /\ editor.cmd = <<":", "q">>
       \/ /\ pc' = "adjust"
          /\ ~editor'.inCommandMode
          /\ editor'.cmd = <<>>]_vars

\* a load that succeeded after a command that failed, the mode Insert and
\* the command string empty
C17_Witness ==
  /\ ops = << <<":", "x">>, EditSrc >>
  /\ pc = "adjust"
  /\ event.key = "KeyEnter"
  /\ ioErr = ""
  /\ editor.currentFilename = SrcPath
  /\ ~editor.inCommandMode
  /\ editor.cmd = <<>>

\* --------------------------------------------------------- mode claims
\* the mode of the editor: command entry while the process is in the loop
\* of handleCommandInput, else Command or Insert by inCommandMode
Mode(e, p) ==
  IF p \in {"cmddraw", "cmdpoll"} THEN "Entry"
  ELSE IF e.inCommandMode THEN "Command"
  ELSE "Insert"

\* the mode transitions: from mode m on event ev to mode m2
Transition(m, ev, m2) ==
  \/ m = "Insert" /\ ev = Key("KeyEsc") /\ m2 = "Command"
  \/ m = "Command" /\ ev = Key("KeyEsc") /\ m2 = "Insert"
  \/ m = "Command" /\ ev = KeyRune(":") /\ m2 = "Entry"
  \/ m = "Entry" /\ ev.key \in {"KeyEsc", "KeyEnter"} /\ m2 = "Insert"

\* the events that have a transition from mode m
Triggers(m, ev) == \E m2 \in {"Insert", "Command", "Entry"} : Transition(m, ev, m2)

\* C18: the editor starts in Insert mode; Escape in Insert goes to Command,
\* Escape in Command to Insert, ':' in Command starts command entry, Escape
\* or Enter during command entry ends it in Insert; no other key event and
\* no resize event changes the mode (steps that end the process apart)
C18_ModeTransitions ==
  /\ Mode(editor, pc) = "Insert"
  /\ [][pc' \notin {"exit", "panic"} =>
         IF Triggers(Mode(editor, pc), event')
         THEN Transition(Mode(editor, pc), event', Mode(editor', pc'))
         ELSE Mode(editor', pc') = Mode(editor, pc)]_vars

\* command entry has just been started by ':' in Command mode
C18_Witness ==
  /\ pc = "cmddraw"
  /\ event = KeyRune(":")
  /\ editor.inCommandMode
  /\ editor.cmd = <<":">>

\* the command string is not empty and begins with the marker
HasMarker(c) == Len(c) >= 1 /\ c[1] = ":"

\* C19 as stated: whenever the editor is in Command mode the command string
\* is non-empty and begins with the marker character
C19_CommandModeHasMarker == editor.inCommandMode => HasMarker(editor.cmd)

\* C19 amended: while a command is being entered the command string is
\* non-empty and begins with the marker; in Command mode before the marker
\* is typed, and in Insert mode, the command string is empty
C19_MarkerDuringEntryOnly ==
  pc \notin {"exit", "panic"} =>
     IF Mode(editor, pc) = "Entry"
     THEN editor.inCommandMode /\ HasMarker(editor.cmd)
     ELSE editor.cmd = <<>>

\* Command mode entered by Escape, for the second time, after a command
\* was typed and submitted: no command string is held
C19_Witness ==
  /\ pc = "adjust"
  /\ event = Key("KeyEsc")
  /\ editor.inCommandMode
  /\ editor.cmd = <<>>
  /\ editor.currentFilename = GoPath

\* C20: during command entry, for any sequence of character and Backspace
\* keys, the command string has length >= 1 and its first character is the
\* ':' marker: a character key appends its rune, Backspace removes the last
\* rune of a longer string and leaves the bare marker unchanged
C20_MarkerSurvivesEditing ==
  [][/\ Mode(editor', pc') = "Entry" => HasMarker(editor'.cmd)
     /\ (pc = "cmdpoll" /\ event'.key = "KeyRune") =>
          editor'.cmd = Append(editor.cmd, event'.rune)
     /\ (pc = "cmdpoll" /\ event' = Key("KeyBackspace")) =>
          /\ Mode(editor', pc') = "Entry"
          /\ editor'.cmd = IF editor.cmd = <<":">> THEN <<":">>
                            ELSE Slice(editor.cmd, 0, Len(editor.cmd) - 1)]_vars

\* Backspace on the bare marker: the string is the marker and nothing was
\* marked for redrawing
C20_Witness ==
  /\ pc = "cmddraw"
  /\ event = Key("KeyBackspace")
  /\ editor.cmd = <<":">>
  /\ ~editor.dirty

\* -------------------------------------------------- highlight cache runs
\* Runs of calls on a HighlightCache and on its SyntaxHighlighter.  event
\* records the call of the step and its arguments, had whether the cache
\* held an entry for the index of a ClearLine, cached the indices that had an
\* entry when Update was called, and before the strategy that was current
\* when SetFileExtension was called.
CacheTexts == {<<>>, <<"a">>}

\* the heights Update is called with
CacheHeights == {0, 1}

CacheBuffers == UNION {[1..k -> CacheTexts] : k \in 0..MaxCacheLines}

Extensions == {<<".", "g", "o">>, <<".", "x">>}

CacheInit ==
  /\ editor = NewEditor
  /\ pc = "poll"
  /\ fs = InitialFiles
  /\ ioErr = ""
  /\ loadFailed = FALSE
  /\ hc \in {NewHighlightCache(r) : r \in 1..MaxRetention}
  /\ event = NoEvent
  /\ start = editor
  /\ ops = <<>>

\* highlighter.SetFileExtension(ext)
CacheSetFileExtension ==
  /\ \E ext \in Extensions :
       /\ editor' = [editor EXCEPT !.highlighter = SetFileExtension(ext)]
       /\ event' = [key |-> "SetFileExtension", ext |-> ext,
                    before |-> editor.highlighter]
  /\ UNCHANGED <<pc, fs, ioErr, loadFailed, hc, history>>

\* highlightCache.Update(offsetY, height, lines)
CacheUpdate ==
  /\ \E offsetY \in 0..MaxCacheLines, height \in CacheHeights, lines \in CacheBuffers :
       /\ hc' = Update(hc, editor.highlighter, offsetY, height, lines)
       /\ event' = [key |-> "Update", offsetY |-> offsetY, height |-> height,
                    lines |-> lines, cached |-> DOMAIN hc.cache]
  /\ UNCHANGED <<editor, pc, fs, ioErr, loadFailed, history>>

\* highlightCache.ClearLine(lineIndex)
CacheClearLine ==
  /\ \E lineIndex \in 0..MaxCacheLines :
       /\ hc' = ClearLine(hc, lineIndex)
       /\ event' = [key |-> "ClearLine", lineIndex |-> lineIndex,
                    had |-> Exists(hc, lineIndex)]
  /\ UNCHANGED <<editor, pc, fs, ioErr, loadFailed, history>>

\* highlightCache.Clear()
CacheClear ==
  /\ hc' = Clear(hc)
  /\ event' = [key |-> "Clear"]
  /\ UNCHANGED <<editor, pc, fs, ioErr, loadFailed, history>>

CacheNext == CacheSetFileExtension \/ CacheUpdate \/ CacheClearLine \/ CacheClear

SpecCache == CacheInit /\ [][CacheNext]_vars

\* the indices a run can cache
CacheIndices == 0..MaxCacheLines

\* ---------------------------------------------------- highlight cache claims
\* C21: after ClearLine(i) the cache has no entry for i and every other index
\* has the entry it had, present or absent, with the same content; after
\* Clear() no index has an entry.
C21_InvalidationFrame ==
  [][/\ (event'.key = "ClearLine" =>
           /\ ~Exists(hc', event'.lineIndex)
           /\ \A j \in CacheIndices \ {event'.lineIndex} :
                /\ Exists(hc', j) = Exists(hc, j)
                /\ Get(hc', j) = Get(hc, j))
     /\ (event'.key = "Clear" => \A j \in CacheIndices : ~Exists(hc', j))]_vars

\* a ClearLine has removed an entry and left another one
C21_Witness ==
  /\ event.key = "ClearLine"
  /\ event.had
  /\ \E j \in CacheIndices : Exists(hc, j) /\ Get(hc, j) # <<>>

\* the window of Update(offsetY, height, lines) of a cache with this retention
Window(retention, offsetY, height, lines) ==
  {i \in 0..(Len(lines) - 1) :
     /\ i >= offsetY - retention * height
     /\ i < offsetY + retention * height}

\* C22: after Update(offsetY, height, lines) every index of the window
\* [max(0, offsetY - retention*height), min(len(lines), offsetY +
\* retention*height)) has an entry; an index of the window that had none has
\* the highlight map of lines[i] as passed to the call; an index that had an
\* entry, in the window or not, has the same entry; no other index has one.
C22_UpdateFillsWindow ==
  [][event'.key = "Update" =>
       LET win == Window(hc.retention, event'.offsetY, event'.height, event'.lines)
       IN /\ \A i \in win : Exists(hc', i)
          /\ \A i \in win :
               ~Exists(hc, i) =>
                 Get(hc', i) = GetHighlightMap(editor.highlighter, At(event'.lines, i))
          /\ \A i \in CacheIndices :
               Exists(hc, i) => Exists(hc', i) /\ Get(hc', i) = Get(hc, i)
          /\ \A i \in CacheIndices \ win : Exists(hc', i) = Exists(hc, i)]_vars

\* an Update has filled an index that had no entry with the map of its line
\* and has kept, inside the window, an entry that is not the map of the line
\* now at its index
C22_Witness ==
  /\ event.key = "Update"
  /\ LET win == Window(hc.retention, event.offsetY, event.height, event.lines)
     IN /\ \E i \in win \ event.cached : Get(hc, i) # <<>>
        /\ \E j \in win \cap event.cached :
             Get(hc, j) # GetHighlightMap(editor.highlighter, At(event.lines, j))

\* C23: after SetFileExtension(ext) the current strategy is a function of ext
\* alone: the strategy of ext when ext is registered, none otherwise,
\* whatever was current before; and with none current GetHighlightMap is the
\* empty map for every line.
C23_StrategyFollowsExtension ==
  [][event'.key = "SetFileExtension" =>
       IF event'.ext \in factories
       THEN editor'.highlighter = event'.ext
       ELSE /\ editor'.highlighter = <<>>
            /\ \A src \in CacheTexts :
                 GetHighlightMap(editor'.highlighter, src) = <<>>]_vars

\* an unregistered extension has been set while the Go strategy was current
\* and the cache holds a map that strategy computed
C23_Witness ==
  /\ event.key = "SetFileExtension"
  /\ event.ext \notin factories
  /\ event.before \in factories
  /\ editor.highlighter = <<>>
  /\ \E i \in CacheIndices : Get(hc, i) # <<>>

\* ------------------------------------------------------------ redraw claims
\* the fields a change of which has to be redrawn: buffer, cursor, viewport
\* offsets, mode, command string, display toggles, screen size, status
StateFields ==
  {"lines", "cursorX", "cursorY", "offsetX", "offsetY", "inCommandMode", "cmd",
   "showLineNumbers", "highlightCurrentLine", "w", "h", "status"}

Changes(e1, e2) == \E f \in StateFields : e1[f] # e2[f]

\* a step of the loops that is a render pass
RenderStep == pc \in {"draw", "cmddraw"}

\* C24: every step that is not a render pass (the load at startup, an event
\* handler of either mode or of command entry, adjustOffsets) and changes the
\* buffer, the cursor, the offsets, the mode, the command string, a toggle,
\* the stored size or the status message ends with the redraw flag set.
C24_ChangeSetsDirty ==
  [][(~RenderStep /\ Changes(editor, editor')) => editor'.dirty]_vars

\* a rune has been inserted after an earlier one was drawn, and the flag the
\* render pass had cleared is set
C24_Witness ==
  /\ pc = "adjust"
  /\ event = KeyRune("a")
  /\ editor.cursorX >= 2
  /\ editor.dirty

\* C25: a render pass started with the redraw flag clear makes no call on the
\* screen and changes nothing of the editor; every render pass that returns
\* leaves the flag clear, and the next thing either loop does is wait for an
\* event.
C25_RedrawGated ==
  [][(RenderStep /\ pc' # "panic") =>
       /\ ~editor.dirty => (~drawWrites(editor) /\ editor' = editor)
       /\ editor.dirty => drawWrites(editor)
       /\ ~editor'.dirty
       /\ pc' \in {"poll", "cmdpoll"}]_vars

\* a render pass is about to start with the flag clear, after an earlier
\* pass has painted a frame of the reported size
C25_Witness ==
  /\ pc = "draw"
  /\ ~editor.dirty
  /\ editor.h = MaxH
  /\ editor.lines # << <<>> >>

ErrorStatus(e) == e.status # <<>> /\ e.status[1] # "File saved"

\* C27: an error status message that has been set stays as it is until a
\* render pass displays it: unless the process quits, no step replaces it by
\* another message or ends the process with the message not displayed.
\* Stated for the steps taken once the size of the terminal is stored.
C27_ErrorStatusDisplayed ==
  [][(ErrorStatus(editor) /\ editor.h >= 1 /\ pc' # "exit") =>
       \/ RenderStep /\ drawShowsStatus(editor)
       \/ editor'.status = editor.status /\ pc' # "panic"]_vars

\* ------------------------------------------------------------- load runs
\* The load of the argument of the process, for arguments path, path:L and
\* path:L:C and every content of the file.  event records the argument as it
\* was built: the number of its parts and the numbers L and C.
LoadNumbers == 0..(MaxFileLen + 1)

\* the decimal numeral of a number below ten
Numeral(n) == <<CHOOSE d \in {"0", "1", "2", "3", "4", "5", "6", "7", "8", "9"} :
                  DigitValue(d) = n>>

\* the arguments: [arg, parts, L, C]
LoadArgs ==
  {[arg |-> SrcPath, parts |-> 1, L |-> 0, C |-> 0]}
  \cup {[arg |-> SrcPath \o <<":">> \o Numeral(l), parts |-> 2, L |-> l, C |-> 0] :
          l \in LoadNumbers}
  \cup {[arg |-> SrcPath \o <<":">> \o Numeral(l) \o <<":">> \o Numeral(c),
         parts |-> 3, L |-> l, C |-> c] : l \in LoadNumbers, c \in LoadNumbers}

LoadInit ==
  /\ editor = NewEditor
  /\ pc = "start"
  /\ fs \in {CmdFiles(data) : data \in FileContents}
  /\ ioErr = ""
  /\ loadFailed = FALSE
  /\ hc = NewHighlightCache(editorRetention)
  /\ event = NoEvent
  /\ start = editor
  /\ ops = <<>>

\* main before its loop: loadFile(os.Args[1]), a failure goes to the status
LoadArgument ==
  /\ pc = "start"
  /\ \E a \in LoadArgs, io \in ReadIO :
     \E r \in {loadFile(editor, a.arg, fs, io.failAfter)} :
       /\ editor' = IF r.err # ""
                    THEN showStatus(r.e, <<"Error loading file", r.err>>)
                    ELSE r.e
       /\ ioErr' = r.err
       /\ loadFailed' = (r.err # "")
       /\ event' = [key |-> "load", parts |-> a.parts, L |-> a.L, C |-> a.C]
  /\ pc' = "poll"
  /\ UNCHANGED <<fs, hc, history>>

LoadNext == LoadArgument

SpecLoad == LoadInit /\ [][LoadNext]_vars

\* C29: after a successful load of path:L or path:L:C with 1 <= L <= number
\* of lines and 1 <= C <= length of line L + 1 the cursor is at row L-1 and
\* column C-1 (column 0 for path:L); after a load of a bare path it is at
\* (0, 0).
C29_CursorFromSuffix ==
  (pc = "poll" /\ event.key = "load" /\ ioErr = "") =>
    LET rowOk == 1 <= event.L /\ event.L <= Len(editor.lines)
        colOk == /\ rowOk
                 /\ 1 <= event.C
                 /\ event.C <= Len(At(editor.lines, event.L - 1)) + 1
    IN /\ event.parts = 1 => editor.cursorY = 0 /\ editor.cursorX = 0
       /\ (event.parts = 2 /\ rowOk) =>
            editor.cursorY = event.L - 1 /\ editor.cursorX = 0
       /\ (event.parts = 3 /\ colOk) =>
            editor.cursorY = event.L - 1 /\ editor.cursorX = event.C - 1

\* ------------------------------------------------------------- move runs
\* Runs of up to MaxMoves arrow keys from every start state of the edit
\* runs; start and ops are the start state and the keys applied.
MoveKeys == {Key("KeyLeft"), Key("KeyRight"), Key("KeyUp"), Key("KeyDown")}

MoveInit == EditInit

\* one key of the run: handleInsertMode
MoveKey ==
  /\ Len(ops) < MaxMoves
  /\ \E ev \in MoveKeys :
       /\ ~handleInsertModePanics(editor, ev)
       /\ editor' = handleInsertMode(editor, ev)
       /\ ops' = Append(ops, ev)
       /\ event' = ev
  /\ UNCHANGED <<pc, fs, ioErr, loadFailed, hc, start>>

MoveNext == MoveKey

SpecMove == MoveInit /\ [][MoveNext]_vars

\* the row an Up or Down key goes to
TargetRow(e, ev) == IF ev = Key("KeyUp") THEN e.cursorY - 1 ELSE e.cursorY + 1

\* the cursor of e2 is the cursor of e1
SameCursor(e1, e2) == e1.cursorX = e2.cursorX /\ e1.cursorY = e2.cursorY

\* C28 as stated: an Up or Down key with an adjacent row to go to moves the
\* cursor to that row and keeps the column when the target row is at least
\* that long, else sets it to the length of the target row; Up on the first
\* row and Down on the last row leave the cursor where it is.
C28_VerticalKeepsColumn ==
  [][event' \in {Key("KeyUp"), Key("KeyDown")} =>
       LET row == TargetRow(editor, event')
       IN IF InRange(editor.lines, row)
          THEN /\ editor'.cursorY = row
               /\ editor'.cursorX =
                    IF Len(At(editor.lines, row)) >= editor.cursorX
                    THEN editor.cursorX ELSE Len(At(editor.lines, row))
          ELSE SameCursor(editor, editor')]_vars

\* C28 amended: the column becomes the length of the target row when the
\* column is greater than 0 and either the cursor is at the end of its row or
\* the column is greater than the length of the target row; otherwise the
\* column is unchanged.  Up on the first row and Down on the last row leave
\* the cursor where it is.
C28_VerticalSticksToEnd ==
  [][event' \in {Key("KeyUp"), Key("KeyDown")} =>
       LET row == TargetRow(editor, event')
           atEnd == editor.cursorX = Len(At(editor.lines, editor.cursorY))
       IN IF InRange(editor.lines, row)
          THEN /\ editor'.cursorY = row
               /\ editor'.cursorX =
                    IF /\ editor.cursorX > 0
                       /\ (atEnd \/ editor.cursorX > Len(At(editor.lines, row)))
                    THEN Len(At(editor.lines, row)) ELSE editor.cursorX
          ELSE SameCursor(editor, editor')]_vars

\* Down from the end of a row that is not empty has gone to the end of a
\* longer row
C28_Witness ==
  /\ ops = <<Key("KeyDown")>>
  /\ start.cursorX > 0
  /\ start.cursorX = Len(At(start.lines, start.cursorY))
  /\ editor.cursorY = start.cursorY + 1
  /\ editor.cursorX = Len(At(editor.lines, editor.cursorY))
  /\ editor.cursorX > start.cursorX

\* C30: Left at column 0 of a row other than the first goes to the end of the
\* previous row, Right at the end of a row other than the last goes to column
\* 0 of the next row; Left after a Right that moved the cursor, and Right
\* after a Left that moved it, bring the cursor back to where it started; and
\* no Left or Right changes the buffer.
C30_LeftRightWrap ==
  [][event' \in {Key("KeyLeft"), Key("KeyRight")} =>
       /\ editor'.lines = editor.lines
       /\ (event' = Key("KeyLeft") /\ editor.cursorX = 0 /\ editor.cursorY > 0) =>
            /\ editor'.cursorY = editor.cursorY - 1
            /\ editor'.cursorX = Len(At(editor.lines, editor.cursorY - 1))
       /\ (/\ event' = Key("KeyRight")
           /\ editor.cursorX = Len(At(editor.lines, editor.cursorY))
           /\ editor.cursorY < Len(editor.lines) - 1) =>
            /\ editor'.cursorY = editor.cursorY + 1
            /\ editor'.cursorX = 0
       /\ (/\ ops = <<Key("KeyRight")>>
           /\ event' = Key("KeyLeft")
           /\ ~SameCursor(start, editor)) => SameCursor(start, editor')
       /\ (/\ ops = <<Key("KeyLeft")>>
           /\ event' = Key("KeyRight")
           /\ ~SameCursor(start, editor)) => SameCursor(start, editor')]_vars

\* Right from the end of the first of two rows and Left from column 0 of the
\* second have brought the cursor back
C30_Witness ==
  /\ ops = <<Key("KeyRight"), Key("KeyLeft")>>
  /\ Len(start.lines) = 2
  /\ start.cursorY = 0
  /\ start.cursorX = Len(At(start.lines, 0))
  /\ start.cursorX > 0
  /\ SameCursor(start, editor)
  /\ editor.lines = start.lines

\* ----------------------------------------------------------- delete runs
\* Runs of up to MaxMoves of the keys Delete, Right and Backspace from every
\* start state of the edit runs.
DeleteKeys == {Key("KeyDelete"), Key("KeyRight"), Key("KeyBackspace")}

DeleteInit == EditInit

\* one key of the run: handleInsertMode
DeleteKey ==
  /\ Len(ops) < MaxMoves
  /\ \E ev \in DeleteKeys :
       /\ ~handleInsertModePanics(editor, ev)
       /\ editor' = handleInsertMode(editor, ev)
       /\ ops' = Append(ops, ev)
       /\ event' = ev
  /\ UNCHANGED <<pc, fs, ioErr, loadFailed, hc, start>>

DeleteNext == DeleteKey

SpecDelete == DeleteInit /\ [][DeleteNext]_vars

\* the cursor is at the end of the last row
AtEndOfBuffer(e) ==
  /\ e.cursorY = Len(e.lines) - 1
  /\ e.cursorX = Len(At(e.lines, e.cursorY))

\* C31: from every cursor position but the end of the last row, Right and
\* then Backspace give the buffer and the cursor that Delete gives; at the
\* end of the last row Delete changes nothing; Delete never moves the cursor.
C31_DeleteIsRightBackspace ==
  [][/\ event' = Key("KeyDelete") =>
          /\ SameCursor(editor, editor')
          /\ AtEndOfBuffer(editor) => editor'.lines = editor.lines
     /\ (/\ ops = <<Key("KeyRight")>>
         /\ event' = Key("KeyBackspace")
         /\ ~AtEndOfBuffer(start)) =>
          /\ editor'.lines = handleDelete(start).lines
          /\ SameCursor(editor', handleDelete(start))
          /\ SameCursor(editor', start)]_vars

\* Right from the end of the first of two rows and Backspace have joined the
\* rows, as Delete does, with the cursor where it started
C31_Witness ==
  /\ ops = <<Key("KeyRight"), Key("KeyBackspace")>>
  /\ Len(start.lines) = 2
  /\ start.cursorY = 0
  /\ start.cursorX = Len(At(start.lines, 0))
  /\ At(start.lines, 1) # <<>>
  /\ editor.lines = << At(start.lines, 0) \o At(start.lines, 1) >>
  /\ SameCursor(start, editor)

\* ------------------------------------------------------------ page claims
PageKeys == {Key("KeyPgUp"), Key("KeyPgDn")}

LastRow(e) == Len(e.lines) - 1

\* C32: with a stored screen height h >= 1, PageDown sets offsetY to
\* min(offsetY + h - 1, last row) and the cursor row to min(offsetY + h - 1,
\* last row) of the new offsetY; PageUp sets offsetY to max(offsetY - (h - 1),
\* 0) and the cursor row to the new offsetY; both set the column to the
\* minimum of the column and the length of the new row; and the adjustOffsets
\* call that follows leaves offsetY as it is.  Stated for the keys of insert
\* mode in the runs without a failed load.
C32_PageMoves ==
  [][(~loadFailed /\ editor.h >= 1 /\ pc' # "panic") =>
       /\ (pc = "poll" /\ ~editor.inCommandMode /\ event' = Key("KeyPgDn")) =>
            /\ editor'.offsetY = Min(editor.offsetY + editor.h - 1, LastRow(editor))
            /\ editor'.cursorY = Min(editor'.offsetY + editor.h - 1, LastRow(editor))
            /\ editor'.cursorX =
                 Min(editor.cursorX, Len(At(editor.lines, editor'.cursorY)))
       /\ (pc = "poll" /\ ~editor.inCommandMode /\ event' = Key("KeyPgUp")) =>
            /\ editor'.offsetY =
                 (IF editor.offsetY - (editor.h - 1) < 0 THEN 0
                  ELSE editor.offsetY - (editor.h - 1))
            /\ editor'.cursorY = editor'.offsetY
            /\ editor'.cursorX =
                 Min(editor.cursorX, Len(At(editor.lines, editor'.cursorY)))
       /\ (pc = "adjust" /\ ~editor.inCommandMode /\ event \in PageKeys) =>
            editor'.offsetY = editor.offsetY]_vars

\* ---------------------------------------------------------- cursor claims
\* a render pass of insert mode that paints, right after adjustOffsets, on a
\* screen with cells, in a run without a failed load
InsertRenderPass ==
  /\ pc = "draw"
  /\ editor.dirty
  /\ ~editor.inCommandMode
  /\ editor.w >= 1 /\ editor.h >= 1
  /\ ~loadFailed
  /\ ~drawPanics(editor)

\* C33: in every insert-mode render pass that follows adjustOffsets the
\* coordinates passed to ShowCursor are on the screen: 0 <= x < w and
\* 0 <= y < h.
C33_CursorOnScreen ==
  InsertRenderPass =>
    /\ 0 <= showCursorX(editor) /\ showCursorX(editor) < editor.w
    /\ 0 <= showCursorY(editor) /\ showCursorY(editor) < editor.h

\* C34: in every insert-mode render pass the column passed to ShowCursor is
\* the screen column at which draw puts the rune at the cursor's logical
\* column of the cursor's row (or would put it, at the end of the row).
C34_CursorOverItsRune ==
  (InsertRenderPass /\ editor.offsetX >= 0 /\ editor.offsetX <= editor.cursorX) =>
    showCursorX(editor) =
      drawColumn(editor, At(editor.lines, editor.cursorY), editor.cursorX)

\* ------------------------------------------------------- save-as runs
\* Command runs over the files of the main specification, with loads of the
\* Go source and saves under a name with and without its extension.
ExtCommands ==
  { <<":", "e", " ">> \o GoPath,
    <<":", "w">>,
    <<":", "w", " ">> \o NewPath,
    <<":", "w", " ">> \o GoPath }

ExtInit ==
  /\ editor \in CmdStates
  /\ pc = "poll"
  /\ fs = InitialFiles
  /\ ioErr = ""
  /\ loadFailed = FALSE
  /\ hc = NewHighlightCache(editorRetention)
  /\ event = NoEvent
  /\ start = editor
  /\ ops = <<>>

\* the user types a command line
TypeExtCommand ==
  /\ pc = "poll"
  /\ ~editor.inCommandMode
  /\ Len(ops) < MaxCmds
  /\ \E c \in ExtCommands :
       /\ IF drawPanics(afterEscape(editor))
          THEN pc' = "panic" /\ UNCHANGED editor
          ELSE pc' = "cmddraw" /\ editor' = typeCommand(editor, c, fs)
       /\ event' = KeyRune(c[Len(c)])
       /\ ops' = Append(ops, c)
  /\ ioErr' = ""
  /\ UNCHANGED <<fs, loadFailed, hc, start>>

ExtNext ==
  \/ TypeExtCommand
  \/ CommandInputDraw
  \/ CommandInputEnter
  \/ AdjustOffsets
  \/ Draw

SpecExt == ExtInit /\ [][ExtNext]_vars

\* the strategy registered for the extension of a filename, <<>> for none
RegisteredFor(filename) ==
  IF Ext(filename) \in factories THEN Ext(filename) ELSE <<>>

\* C35: in every reachable state the current highlighting strategy is the one
\* registered for the extension of the current filename, none when there is
\* no filename or the extension is not registered.
C35_StrategyMatchesFilename ==
  editor.highlighter = RegisteredFor(editor.currentFilename)

\* ============================================= the cache-backed editor
\* The revision of the editor that draws from a HighlightCache.  Its
\* handlers work on the editor e and the cache c and give [e, c]; the size
\* of the screen is read from the screen at every use, e.w and e.h hold what
\* screen.Size() returns.
Cached(e, c) == [e |-> e, c |-> c]

\* draw: nothing when not dirty, else the cache is updated for the window
\* around offsetY and the rows are painted from it
cachedDrawPanics(e) ==
  /\ e.dirty
  /\ \E y \in 0..(e.h - 1) :
       /\ y + e.offsetY < Len(e.lines)
       /\ ~(e.inCommandMode /\ y = e.h - 1)
       /\ \/ y + e.offsetY < 0
          \/ e.offsetX < 0 /\ e.offsetX < Len(At(e.lines, y + e.offsetY)) /\ 0 < e.w

cachedDraw(e, c) ==
  IF ~e.dirty THEN Cached(e, c)
  ELSE Cached([e EXCEPT !.dirty = FALSE],
              Update(c, e.highlighter, e.offsetY, e.h, e.lines))

\* the rows a render pass paints, as indices of lines
visibleRows(e) ==
  {y + e.offsetY : y \in {z \in 0..(e.h - 1) :
                            /\ z + e.offsetY < Len(e.lines)
                            /\ ~(e.inCommandMode /\ z = e.h - 1)}}

\* adjustOffsets, which ends with an Update of the cache
cachedAdjustOffsets(e, c) ==
  LET a == adjustOffsets(e)
  IN Cached(a, Update(c, a.highlighter, a.offsetY, a.h, a.lines))

\* loadFile: an open failure leaves everything; a read failure keeps the
\* lines read so far and goes on like a load that succeeded
cachedLoadFile(e, c, filename, files, failAfter) ==
  IF filename \notin DOMAIN files THEN Cached(e, c)
  ELSE LET tokens == ScanLines(files[filename].data)
           stop == IF files[filename].dir THEN 0 ELSE failAfter
           read == IF stop >= 0 THEN Slice(tokens, 0, Min(stop, Len(tokens)))
                   ELSE tokens
           ls == IF read = <<>> THEN << <<>> >> ELSE read
       IN Cached([e EXCEPT !.lines = ls, !.cursorX = 0, !.cursorY = 0,
                           !.currentFilename = filename, !.dirty = TRUE,
                           !.highlighter = SetFileExtension(Ext(filename))],
                 Clear(c))

\* the Up, Down, PgUp and PgDn cases of handleInsertMode
cachedMoveUp(e) ==
  IF e.cursorY > 0
  THEN [e EXCEPT !.cursorY = e.cursorY - 1,
                 !.cursorX = Min(e.cursorX, Len(At(e.lines, e.cursorY - 1))),
                 !.dirty = TRUE]
  ELSE [e EXCEPT !.dirty = TRUE]

cachedMoveDown(e) ==
  IF e.cursorY < Len(e.lines) - 1
  THEN [e EXCEPT !.cursorY = e.cursorY + 1,
                 !.cursorX = Min(e.cursorX, Len(At(e.lines, e.cursorY + 1))),
                 !.dirty = TRUE]
  ELSE [e EXCEPT !.dirty = TRUE]

cachedPageUp(e) ==
  IF e.offsetY > 0
  THEN [e EXCEPT !.offsetY = pageUpOffsetY(e), !.cursorY = pageUpOffsetY(e),
                 !.dirty = TRUE]
  ELSE e

cachedPageDown(e) ==
  IF e.offsetY < Len(e.lines) - 1
  THEN [e EXCEPT !.offsetY = pageDownOffsetY(e), !.cursorY = pageDownOffsetY(e),
                 !.dirty = TRUE]
  ELSE e

\* handleInsertMode before its draw: the editor after the case of the key
cachedKeyEditor(e, ev) ==
  CASE ev.key = "KeyEsc" -> handleExitInsertMode(e)
    [] ev.key = "KeyRune" -> handleInsertRune(e, ev.rune)
    [] ev.key = "KeyBackspace" -> handleBackspace(e)
    [] ev.key = "KeyDelete" -> handleDelete(e)
    [] ev.key = "KeyEnter" -> handleEnter(e)
    [] ev.key = "KeyLeft" -> handleMoveLeft(e)
    [] ev.key = "KeyRight" -> handleMoveRight(e)
    [] ev.key = "KeyUp" -> cachedMoveUp(e)
    [] ev.key = "KeyDown" -> cachedMoveDown(e)
    [] ev.key = "KeyPgUp" -> cachedPageUp(e)
    [] ev.key = "KeyPgDn" -> cachedPageDown(e)
    [] ev.key = "KeyHome" -> handleMoveToStart(e)
    [] ev.key = "KeyEnd" -> handleMoveToEnd(e)
    [] OTHER -> e

\* handleInsertMode that invalidates nothing
cachedKeyCache_keep(e, c, ev) == c

\* the cache after the invalidation the case of the key makes: ClearLine of
\* the cursor row after an edit inside a line, Clear after a split or a join
cachedKeyCache(e, c, ev) ==
  CASE ev.key = "KeyRune" -> ClearLine(c, e.cursorY)
    [] ev.key = "KeyBackspace" ->
         IF e.cursorY < Len(e.lines) /\ e.cursorX > 0 THEN ClearLine(c, e.cursorY)
         ELSE IF e.cursorY > 0 THEN Clear(c)
         ELSE c
    [] ev.key = "KeyDelete" ->
         IF e.cursorY < Len(e.lines) /\ e.cursorX < Len(At(e.lines, e.cursorY))
         THEN ClearLine(c, e.cursorY)
         ELSE IF e.cursorY < Len(e.lines) - 1 THEN Clear(c)
         ELSE c
    [] ev.key = "KeyEnter" -> IF e.cursorY < Len(e.lines) THEN Clear(c) ELSE c
    [] OTHER -> c

cachedInsertModePanics(e, ev) ==
  \/ CASE ev.key = "KeyRune" -> handleInsertRunePanics(e)
       [] ev.key = "KeyBackspace" -> handleBackspacePanics(e)
       [] ev.key = "KeyDelete" -> handleDeletePanics(e)
       [] ev.key = "KeyEnter" -> handleEnterPanics(e)
       [] ev.key = "KeyLeft" -> handleMoveLeftPanics(e)
       [] ev.key = "KeyUp" -> e.cursorY > 0 /\ ~InRange(e.lines, e.cursorY - 1)
       [] ev.key = "KeyDown" -> e.cursorY < Len(e.lines) - 1 /\ e.cursorY + 1 < 0
       [] ev.key = "KeyEnd" -> handleMoveToEndPanics(e)
       [] OTHER -> FALSE
  \/ cachedDrawPanics(cachedKeyEditor(e, ev))

\* handleInsertMode: the case of the key, its invalidation, then draw
cachedInsertMode(e, c, ev) ==
  cachedDraw(cachedKeyEditor(e, ev), cachedKeyCache(e, c, ev))

\* handleCommandInput of the cache-backed editor for the command line the
\* user types: <<>> stands for Escape, any other command ends with Enter.
\* size is the size a resize event reports while the command is typed,
\* <<>> when there is none: the resize draws the buffer.
cachedFilename(command) == Trim(TrimSpace(Slice(command, 2, Len(command))), {"\""})

cachedExecute(e, c, command, files, failAfter) ==
  IF IsPrefix(<<":", "e", " ">>, command)
  THEN IF cachedFilename(command) = <<>> THEN Cached(e, c)
       ELSE cachedLoadFile([e EXCEPT !.currentFilename = cachedFilename(command)], c,
                           cachedFilename(command), files, failAfter)
  ELSE IF command = <<":", "e">>
  THEN IF e.currentFilename # <<>>
       THEN cachedLoadFile(e, c, e.currentFilename, files, failAfter)
       ELSE Cached(e, c)
  ELSE Cached(e, c)

cachedCommandInput(e, c, command, size, files, failAfter) ==
  LET r0 == IF size = <<>> THEN Cached(e, c)
            ELSE cachedDraw([e EXCEPT !.w = size[1], !.h = size[2], !.dirty = TRUE], c)
      r1 == IF command = <<>>
            THEN Cached([r0.e EXCEPT !.dirty = TRUE, !.inCommandMode = FALSE], r0.c)
            ELSE LET x == cachedExecute(r0.e, r0.c, command, files, failAfter)
                 IN Cached([x.e EXCEPT !.dirty = TRUE], x.c)
  IN cachedDraw(r1.e, r1.c)

\* handleCommandMode of the cache-backed editor: Escape, ':' with the
\* command typed after it, any other key; then draw
cachedCommandMode(e, c, ev, command, size, files, failAfter) ==
  IF ev.key = "KeyEsc"
  THEN cachedDraw([e EXCEPT !.inCommandMode = FALSE, !.dirty = TRUE], c)
  ELSE IF ev.key = "KeyRune" /\ ev.rune = ":"
  THEN LET r == cachedCommandInput(e, c, command, size, files, failAfter)
       IN cachedDraw([r.e EXCEPT !.dirty = TRUE, !.inCommandMode = FALSE], r.c)
  ELSE cachedDraw(e, c)

\* ---------------------------------------- runs of the cache-backed editor
CachedKeys ==
  {KeyRune("a")} \cup
  {Key(k) : k \in {"KeyEsc", "KeyBackspace", "KeyDelete", "KeyEnter",
                   "KeyLeft", "KeyRight", "KeyUp", "KeyDown", "KeyPgUp",
                   "KeyPgDn", "KeyHome", "KeyEnd"}}

CachedCommands ==
  { <<>>,
    <<":", "e">>,
    <<":", "e", " ">> \o GoPath,
    <<":", "e", " ">> \o DirPath,
    <<":", "e", " ">> \o NoPath,
    <<":", "x">> }

CachedInit ==
  /\ \E size \in Sizes : editor = [NewEditor EXCEPT !.w = size[1], !.h = size[2]]
  /\ pc = "start"
  /\ fs = InitialFiles
  /\ ioErr = ""
  /\ loadFailed = FALSE
  /\ hc = NewHighlightCache(editorRetention)
  /\ event = NoEvent
  /\ start = editor
  /\ ops = <<>>

\* main before its loop: loadFile of the argument, then draw
CachedStart ==
  /\ pc = "start"
  /\ \E arg \in {<<>>, GoPath} :
       \E l \in {IF arg = <<>> THEN Cached(editor, hc)
                 ELSE cachedLoadFile(editor, hc, arg, fs, -1)} :
         \E r \in {cachedDraw(l.e, l.c)} :
           /\ editor' = r.e
           /\ hc' = r.c
  /\ pc' = "poll"
  /\ UNCHANGED <<fs, ioErr, loadFailed, event, history>>

\* a key event in insert mode: handleInsertMode
CachedInsertKey ==
  /\ pc = "poll"
  /\ ~editor.inCommandMode
  /\ Len(ops) < MaxOps
  /\ \E ev \in CachedKeys :
       /\ IF cachedInsertModePanics(editor, ev)
          THEN pc' = "panic" /\ UNCHANGED <<editor, hc>>
          ELSE \E r \in {cachedInsertMode(editor, hc, ev)} :
                 /\ editor' = r.e
                 /\ hc' = r.c
                 /\ pc' = "adjust"
       /\ event' = ev
       /\ ops' = Append(ops, ev)
  /\ UNCHANGED <<fs, ioErr, loadFailed, start>>

\* a key event in command mode: handleCommandMode, the command line typed
\* after ':' included
CachedCommandKey ==
  /\ pc = "poll"
  /\ editor.inCommandMode
  /\ Len(ops) < MaxOps
  /\ \E ev \in {Key("KeyEsc"), KeyRune("a"), KeyRune(":")} :
       \E command \in (IF ev = KeyRune(":") THEN CachedCommands ELSE {<<>>}) :
         \E size \in (IF ev = KeyRune(":") THEN {<<>>} \cup Sizes ELSE {<<>>}) :
           \E failAfter \in (IF ev = KeyRune(":") THEN {-1, 1} ELSE {-1}) :
             \E r \in {cachedCommandMode(editor, hc, ev, command, size, fs, failAfter)} :
               /\ editor' = r.e
               /\ hc' = r.c
               /\ event' = ev
               /\ ops' = Append(ops, ev)
  /\ pc' = "adjust"
  /\ UNCHANGED <<fs, ioErr, loadFailed, start>>

\* a resize event in the loop of main
CachedResize ==
  /\ pc = "poll"
  /\ Len(ops) < MaxOps
  /\ \E size \in Sizes :
       editor' = [editor EXCEPT !.w = size[1], !.h = size[2], !.dirty = TRUE]
  /\ pc' = "adjust"
  /\ event' = EventResize
  /\ ops' = Append(ops, EventResize)
  /\ UNCHANGED <<fs, ioErr, loadFailed, hc, start>>

\* the loop of main after the event: adjustOffsets
CachedAdjustOffsets ==
  /\ pc = "adjust"
  /\ \E r \in {cachedAdjustOffsets(editor, hc)} :
       /\ editor' = r.e
       /\ hc' = r.c
  /\ pc' = "draw"
  /\ UNCHANGED <<fs, ioErr, loadFailed, event, history>>

\* the loop of main after adjustOffsets: draw
CachedDraw ==
  /\ pc = "draw"
  /\ IF cachedDrawPanics(editor)
     THEN pc' = "panic" /\ UNCHANGED <<editor, hc>>
     ELSE \E r \in {cachedDraw(editor, hc)} :
            /\ editor' = r.e
            /\ hc' = r.c
            /\ pc' = "poll"
  /\ UNCHANGED <<fs, ioErr, loadFailed, event, history>>

CachedNext ==
  \/ CachedStart
  \/ CachedInsertKey
  \/ CachedCommandKey
  \/ CachedResize
  \/ CachedAdjustOffsets
  \/ CachedDraw

SpecCached == CachedInit /\ [][CachedNext]_vars

\* the entry of row i is the map the highlighter gives for the text of row i
FreshEntry(i) ==
  /\ Exists(hc, i)
  /\ Get(hc, i) = GetHighlightMap(editor.highlighter, At(editor.lines, i))

\* C36: in the cache-backed editor, when a render pass has painted the
\* buffer (draw ran and left dirty false), the cache entry of every row it
\* painted is the highlighter's map for the current text of that row, and
\* no entry of the cache at all is stale: no insert, delete, split, join or
\* load leaves an entry that differs from the map of the row it stands for.
C36_NoStaleEntry ==
  /\ (pc # "start" /\ ~editor.dirty) => \A i \in visibleRows(editor) : FreshEntry(i)
  /\ \A i \in DOMAIN hc.cache :
       i < Len(editor.lines) =>
         hc.cache[i] = GetHighlightMap(editor.highlighter, At(editor.lines, i))

\* a row of the Go file changed by a key is painted from a fresh entry
C36_Witness ==
  /\ pc = "adjust"
  /\ editor.highlighter = GoPath
  /\ event.key \in {"KeyRune", "KeyBackspace", "KeyDelete", "KeyEnter"}
  /\ editor.lines # ScanLines(InitialFiles[GoPath].data)
  /\ ~editor.dirty
  /\ editor.cursorY \in visibleRows(editor)
  /\ FreshEntry(editor.cursorY)
  /\ Get(hc, editor.cursorY) # <<>>

\* ------------------------------------------------------- index safety
\* C37: from a started editor no sequence of key events, resize events and
\* commands that succeed makes an out-of-range access to the line list or to
\* a line, whatever the stored screen size is, the size 0 x 0 the editor has
\* before the first resize event included
C37_NoIndexPanic == ~loadFailed => pc # "panic"

\* --------------------------------------------- command mode, key by key
\* The runs of command mode and of command entry, one event a step: from an
\* insert-mode state Escape, then any key of command mode, the keys of
\* every command line of EntryCommands with every outcome of its file
\* operations, and resize events.
EntryCommands ==
  { <<":", "e">>,
    <<":", "e", " ">> \o GoPath,
    <<":", "w">>,
    <<":", "w", " ">> \o NewPath,
    <<":", "q">>,
    <<":", "l", "n">>,
    <<":", "x">> }

EntryInit == ExtInit

\* Escape in insert mode: handleInsertMode
EntryEscape ==
  /\ pc = "poll"
  /\ ~editor.inCommandMode
  /\ editor' = handleInsertMode(editor, Key("KeyEsc"))
  /\ pc' = "adjust"
  /\ event' = Key("KeyEsc")
  /\ ioErr' = ""
  /\ UNCHANGED <<fs, loadFailed, hc, history>>

EntryNext ==
  \/ EntryEscape
  \/ CommandKey
  \/ CommandInputDraw
  \/ CommandInputKey(EntryCommands, CommandIOs(editor.cmd))
  \/ CommandInputResize
  \/ Resize
  \/ AdjustOffsets
  \/ Draw

SpecEntry == EntryInit /\ [][EntryNext]_vars

\* the Enter that submits a command whose first word is e
SubmitsEdit ==
  /\ pc = "cmdpoll"
  /\ event' = Key("KeyEnter")
  /\ Verb(editor.cmd) = <<"e">>

\* C38: while the editor is in command mode or in command entry no event
\* but the Enter that submits an e command changes the lines of the buffer
\* or the cursor; a rune typed in command entry is appended to the command
\* string; a key of command mode other than Escape and ':' changes nothing
\* of the editor.
C38_CommandModeFrame ==
  [][(editor.inCommandMode /\ pc \in {"poll", "cmdpoll"}) =>
       /\ ~SubmitsEdit =>
            /\ editor'.lines = editor.lines
            /\ editor'.cursorX = editor.cursorX
            /\ editor'.cursorY = editor.cursorY
       /\ (pc = "cmdpoll" /\ event'.key = "KeyRune") =>
            editor' = [editor EXCEPT !.cmd = Append(editor.cmd, event'.rune),
                                     !.dirty = TRUE]
       /\ (pc = "poll" /\ event' \notin {Key("KeyEsc"), KeyRune(":"), EventResize}) =>
            editor' = editor]_vars

\* a rune has been typed into the command string over a buffer whose cursor
\* is not at the origin
C38_Witness ==
  /\ pc = "cmddraw"
  /\ event = KeyRune("w")
  /\ editor.inCommandMode
  /\ editor.cmd = <<":", "w">>
  /\ editor.cursorY = 1
  /\ editor.lines = << <<"a">>, <<>> >>

\* ================================= the editor with a stored visual column
\* The revision of src/main.go keeps the visual column of the cursor in the
\* field virtualCursorX and reads the size of the screen at every use (e.w
\* and e.h hold what screen.Size() returns).
NewVirtualEditor == NewEditor @@ [virtualCursorX |-> 0]

\* the loop the handlers use to recompute the column: spacesPerTab for a
\* tab, one for any other rune
RECURSIVE virtualWidth(_, _)
virtualWidth(e, s) ==
  IF s = <<>> THEN 0
  ELSE (IF Head(s) = TAB THEN e.spacesPerTab ELSE 1) + virtualWidth(e, Tail(s))

\* the KeyRune and KeyTab cases: the rune goes in at the clamped cursor,
\* then cursorX and virtualCursorX advance by step
virtualInsert(e, r, step) ==
  LET ls == IF e.cursorY >= Len(e.lines) THEN Append(e.lines, <<>>) ELSE e.lines
      line == At(ls, e.cursorY)
      cx == IF e.cursorX > Len(line) THEN Len(line) ELSE e.cursorX
  IN [e EXCEPT !.lines = SetAt(ls, e.cursorY, InsertAt(line, cx, r)),
               !.cursorX = cx + step,
               !.virtualCursorX = e.virtualCursorX + step,
               !.dirty = TRUE]

\* the KeyBackspace case
virtualBackspace(e) ==
  IF e.cursorY < Len(e.lines) /\ e.cursorX > 0
  THEN LET line == At(e.lines, e.cursorY)
       IN [e EXCEPT !.lines = SetAt(e.lines, e.cursorY, DeleteAt(line, e.cursorX - 1)),
                    !.cursorX = e.cursorX - 1,
                    !.virtualCursorX =
                       IF At(line, e.cursorX - 1) = TAB
                       THEN e.virtualCursorX - e.spacesPerTab
                       ELSE e.virtualCursorX - 1,
                    !.dirty = TRUE]
  ELSE IF e.cursorY > 0
  THEN LET prevLine == At(e.lines, e.cursorY - 1)
           merged == SetAt(e.lines, e.cursorY - 1, prevLine \o At(e.lines, e.cursorY))
       IN [e EXCEPT !.lines = DeleteAt(merged, e.cursorY),
                    !.cursorX = Len(prevLine),
                    !.virtualCursorX = virtualWidth(e, prevLine),
                    !.cursorY = e.cursorY - 1,
                    !.dirty = TRUE]
  ELSE e

\* the KeyLeft and KeyRight cases
virtualLeft(e) ==
  IF e.cursorX > 0
  THEN [e EXCEPT !.cursorX = e.cursorX - 1,
                 !.virtualCursorX =
                    IF At(At(e.lines, e.cursorY), e.cursorX - 1) = TAB
                    THEN e.virtualCursorX - e.spacesPerTab
                    ELSE e.virtualCursorX - 1,
                 !.dirty = TRUE]
  ELSE IF e.cursorY > 0
  THEN [e EXCEPT !.cursorY = e.cursorY - 1,
                 !.cursorX = Len(At(e.lines, e.cursorY - 1)),
                 !.virtualCursorX = virtualWidth(e, At(e.lines, e.cursorY - 1)),
                 !.dirty = TRUE]
  ELSE [e EXCEPT !.dirty = TRUE]

virtualRight(e) ==
  IF e.cursorY < Len(e.lines) /\ e.cursorX < Len(At(e.lines, e.cursorY))
  THEN [e EXCEPT !.cursorX = e.cursorX + 1,
                 !.virtualCursorX =
                    IF At(At(e.lines, e.cursorY), e.cursorX) = TAB
                    THEN e.virtualCursorX + e.spacesPerTab
                    ELSE e.virtualCursorX + 1,
                 !.dirty = TRUE]
  ELSE IF e.cursorY < Len(e.lines) - 1
  THEN [e EXCEPT !.cursorY = e.cursorY + 1, !.cursorX = 0, !.virtualCursorX = 0,
                 !.dirty = TRUE]
  ELSE [e EXCEPT !.dirty = TRUE]

\* the KeyUp and KeyDown cases: the cursor goes to row y, to its end when it
\* was at the end of its row or beyond the end of row y, and the column is
\* recomputed over the first cursorX runes of row y
virtualVertical(e, y) ==
  LET eol == e.cursorX = Len(At(e.lines, e.cursorY))
      target == At(e.lines, y)
      cx == IF e.cursorX > 0 /\ (eol \/ e.cursorX > Len(target)) THEN Len(target)
            ELSE e.cursorX
  IN [e EXCEPT !.cursorY = y, !.cursorX = cx,
               !.virtualCursorX = virtualWidth(e, Slice(target, 0, IF cx < 0 THEN 0 ELSE cx)),
               !.dirty = TRUE]

virtualUp(e) ==
  IF e.cursorY > 0 THEN virtualVertical(e, e.cursorY - 1) ELSE [e EXCEPT !.dirty = TRUE]

virtualDown(e) ==
  IF e.cursorY < Len(e.lines) - 1 THEN virtualVertical(e, e.cursorY + 1)
  ELSE [e EXCEPT !.dirty = TRUE]

\* the KeyEnd case
virtualEnd(e) ==
  IF e.cursorY < Len(e.lines)
  THEN [e EXCEPT !.cursorX = Len(At(e.lines, e.cursorY)),
                 !.virtualCursorX = virtualWidth(e, At(e.lines, e.cursorY)),
                 !.dirty = TRUE]
  ELSE [e EXCEPT !.dirty = TRUE]

\* handleInsertMode of this revision.  Its Delete, PgUp and PgDn cases are
\* those of handleDelete, handlePageUp and handlePageDown and leave
\* virtualCursorX alone.  The Enter case is outside the runs below.
virtualInsertMode(e, ev) ==
  CASE ev.key = "KeyEsc" -> [e EXCEPT !.dirty = TRUE, !.inCommandMode = TRUE]
    [] ev.key = "KeyRune" -> virtualInsert(e, ev.rune, 1)
    [] ev.key = "KeyTab" -> virtualInsert(e, TAB, e.spacesPerTab)
    [] ev.key = "KeyBackspace" -> virtualBackspace(e)
    [] ev.key = "KeyDelete" -> handleDelete(e)
    [] ev.key = "KeyLeft" -> virtualLeft(e)
    [] ev.key = "KeyRight" -> virtualRight(e)
    [] ev.key = "KeyUp" -> virtualUp(e)
    [] ev.key = "KeyDown" -> virtualDown(e)
    [] ev.key = "KeyPgUp" -> handlePageUp(e)
    [] ev.key = "KeyPgDn" -> handlePageDown(e)
    [] ev.key = "KeyHome" -> [e EXCEPT !.cursorX = 0, !.virtualCursorX = 0, !.dirty = TRUE]
    [] ev.key = "KeyEnd" -> virtualEnd(e)
    [] OTHER -> e

\* the out-of-range accesses of handleInsertMode
virtualInsertModePanics(e, ev) ==
  CASE ev.key \in {"KeyRune", "KeyTab"} -> handleInsertRunePanics(e)
    [] ev.key = "KeyBackspace" -> handleBackspacePanics(e)
    [] ev.key = "KeyDelete" -> handleDeletePanics(e)
    [] ev.key = "KeyLeft" ->
         IF e.cursorX > 0
         THEN ~InRange(e.lines, e.cursorY) \/ e.cursorX - 1 >= Len(At(e.lines, e.cursorY))
         ELSE e.cursorY > 0 /\ ~InRange(e.lines, e.cursorY - 1)
    [] ev.key = "KeyRight" ->
         e.cursorY < Len(e.lines) /\
           (e.cursorY < 0 \/ (e.cursorX < Len(At(e.lines, e.cursorY)) /\ e.cursorX < 0))
    [] ev.key = "KeyUp" ->
         e.cursorY > 0 /\ (~InRange(e.lines, e.cursorY) \/ ~InRange(e.lines, e.cursorY - 1))
    [] ev.key = "KeyDown" ->
         e.cursorY < Len(e.lines) - 1 /\ (e.cursorY < 0 \/ ~InRange(e.lines, e.cursorY + 1))
    [] ev.key = "KeyPgUp" -> handlePageUpPanics(e)
    [] ev.key = "KeyPgDn" -> handlePageDownPanics(e)
    [] ev.key = "KeyEnd" -> e.cursorY < Len(e.lines) /\ e.cursorY < 0
    [] OTHER -> FALSE

\* loadFile of this revision, for a read that does not fail: an open
\* failure leaves the editor and gives the error
virtualLoadFile(e, filename, files) ==
  LET path == Clean(filename)
  IN IF path \notin DOMAIN files THEN [e |-> e, err |-> "open"]
     ELSE LET tokens == ScanLines(files[path].data)
          IN [e |-> [e EXCEPT !.lines = IF tokens = <<>> THEN << <<>> >> ELSE tokens,
                              !.cursorX = 0, !.cursorY = 0,
                              !.currentFilename = path,
                              !.dirty = TRUE,
                              !.highlighter = SetFileExtension(Ext(path))],
              err |-> ""]

\* adjustOffsets of this revision: the horizontal window follows
\* virtualCursorX
virtualAdjustOffsets(e) ==
  LET ox == IF e.virtualCursorX < e.offsetX THEN e.virtualCursorX
            ELSE IF e.virtualCursorX >= e.offsetX + e.w THEN e.virtualCursorX - e.w + 1
            ELSE e.offsetX
      oy == IF e.cursorY < e.offsetY THEN e.cursorY
            ELSE IF e.cursorY >= e.offsetY + e.h - 1 THEN e.cursorY - e.h + 1
            ELSE e.offsetY
      moved == \/ e.virtualCursorX < e.offsetX
               \/ e.virtualCursorX >= e.offsetX + e.w
               \/ e.cursorY < e.offsetY
               \/ e.cursorY >= e.offsetY + e.h - 1
  IN [e EXCEPT !.offsetX = ox, !.offsetY = oy, !.dirty = e.dirty \/ moved]

\* draw of this revision indexes the rows it paints and, from offsetX on,
\* their runes; the cursor comes from virtualCursorX without an index
virtualDrawPanics(e) ==
  /\ e.dirty
  /\ \E y \in drawnRows(e) :
       \/ y + e.offsetY < 0
       \/ startX(e) < e.w /\ e.offsetX < 0

\* handleCommandInput of this revision for the command line the user types
\* and submits with Enter: the draws of its loop happen in command mode and
\* leave nothing behind that the end of the loop does not overwrite
virtualExecute(e, command, files) ==
  LET filename == Trim(TrimSpace(Slice(command, 2, Len(command))), {"\""})
      load(ed, name) ==
        LET r == virtualLoadFile(ed, name, files)
        IN IF r.err # "" THEN showStatus(r.e, <<"Error loading file", r.err>>) ELSE r.e
  IN IF IsPrefix(<<":", "e", " ">>, command)
     THEN IF filename = <<>> THEN showStatus(e, <<"No filename specified for :e command">>)
          ELSE load([e EXCEPT !.currentFilename = filename], filename)
     ELSE IF command = <<":", "e">>
     THEN IF e.currentFilename # <<>> THEN load(e, e.currentFilename)
          ELSE showStatus(e, <<"No filename specified for :e command">>)
     ELSE showStatus(e, <<"Unknown command", command>>)

virtualCommandInput(e, command, files) ==
  [virtualExecute(e, command, files) EXCEPT !.cmd = <<>>, !.dirty = TRUE,
                                            !.inCommandMode = FALSE]

\* handleCommandMode of this revision
virtualCommandMode(e, ev, command, files) ==
  IF ev.key = "KeyEsc" THEN [e EXCEPT !.inCommandMode = FALSE, !.dirty = TRUE]
  ELSE IF ev.key = "KeyRune" /\ ev.rune = ":" THEN virtualCommandInput(e, command, files)
  ELSE e

\* ------------------------------- runs of the editor with a stored column
VirtualKeys ==
  {KeyRune("a")} \cup
  {Key(k) : k \in {"KeyEsc", "KeyTab", "KeyBackspace", "KeyDelete",
                   "KeyLeft", "KeyRight", "KeyUp", "KeyDown", "KeyPgUp",
                   "KeyPgDn", "KeyHome", "KeyEnd"}}

VirtualCommands ==
  { <<":", "e">>,
    <<":", "e", " ">> \o GoPath,
    <<":", "e", " ">> \o NoPath,
    <<":", "x">> }

VirtualInit ==
  /\ \E size \in Sizes : editor = [NewVirtualEditor EXCEPT !.w = size[1], !.h = size[2]]
  /\ pc = "start"
  /\ fs = InitialFiles
  /\ ioErr = ""
  /\ loadFailed = FALSE
  /\ hc = NewHighlightCache(editorRetention)
  /\ event = NoEvent
  /\ start = editor
  /\ ops = <<>>

\* main before its loop: loadFile of the argument and draw
VirtualStart ==
  /\ pc = "start"
  /\ \E arg \in {<<>>, GoPath} :
       editor' = IF arg = <<>> THEN draw(editor)
                 ELSE draw(virtualLoadFile(editor, arg, fs).e)
  /\ pc' = "poll"
  /\ UNCHANGED <<fs, ioErr, loadFailed, hc, event, history>>

\* a key event in insert mode: handleInsertMode
VirtualKey ==
  /\ pc = "poll"
  /\ ~editor.inCommandMode
  /\ Len(ops) < MaxOps
  /\ \E ev \in VirtualKeys :
       /\ IF virtualInsertModePanics(editor, ev)
          THEN pc' = "panic" /\ UNCHANGED editor
          ELSE pc' = "adjust" /\ editor' = virtualInsertMode(editor, ev)
       /\ event' = ev
       /\ ops' = Append(ops, ev)
  /\ UNCHANGED <<fs, ioErr, loadFailed, hc, start>>

\* a key event in command mode: handleCommandMode, with the command line
\* typed after ':'
VirtualCommandKey ==
  /\ pc = "poll"
  /\ editor.inCommandMode
  /\ Len(ops) < MaxOps
  /\ \E ev \in {Key("KeyEsc"), KeyRune(":")} :
       \E command \in (IF ev = KeyRune(":") THEN VirtualCommands ELSE {<<>>}) :
         /\ editor' = virtualCommandMode(editor, ev, command, fs)
         /\ event' = [key |-> ev.key, rune |-> ev.rune, command |-> command]
         /\ ops' = Append(ops, ev)
  /\ pc' = "adjust"
  /\ UNCHANGED <<fs, ioErr, loadFailed, hc, start>>

\* a resize event in the loop of main
VirtualResize ==
  /\ pc = "poll"
  /\ Len(ops) < MaxOps
  /\ \E size \in Sizes :
       editor' = [editor EXCEPT !.w = size[1], !.h = size[2], !.dirty = TRUE]
  /\ pc' = "adjust"
  /\ event' = EventResize
  /\ ops' = Append(ops, EventResize)
  /\ UNCHANGED <<fs, ioErr, loadFailed, hc, start>>

VirtualAdjustOffsets ==
  /\ pc = "adjust"
  /\ editor' = virtualAdjustOffsets(editor)
  /\ pc' = "draw"
  /\ UNCHANGED <<fs, ioErr, loadFailed, hc, event, history>>

VirtualDraw ==
  /\ pc = "draw"
  /\ IF virtualDrawPanics(editor)
     THEN pc' = "panic" /\ UNCHANGED editor
     ELSE pc' = "poll" /\ editor' = draw(editor)
  /\ UNCHANGED <<fs, ioErr, loadFailed, hc, event, history>>

VirtualNext ==
  \/ VirtualStart
  \/ VirtualKey
  \/ VirtualCommandKey
  \/ VirtualResize
  \/ VirtualAdjustOffsets
  \/ VirtualDraw

SpecVirtual == VirtualInit /\ [][VirtualNext]_vars

\* the width on the screen of the first cursorX runes of the cursor's row
ExpandedColumn(e) ==
  virtualWidth(e, Slice(At(e.lines, e.cursorY), 0, e.cursorX))

\* C39: in the revision that stores the visual column, after every
\* insert-mode key event and after every load of a file the cursor is a
\* position of its row, 0 <= cursorX <= length of the row, and
\* virtualCursorX is the tab-expanded width of the first cursorX runes of
\* that row
C39_VirtualColumn ==
  (pc \in {"poll", "adjust", "draw"}) =>
     /\ ValidCursor(editor)
     /\ editor.virtualCursorX = ExpandedColumn(editor)

====
